---- MODULE Spec2Model ----
(***************************************************************************)
(* Model of the YiDimension IM gateway (src/server.js): the per-connection *)
(* ChatClient (RemoteSession), its initialization and send queue, the      *)
(* WebSocket message handlers, the backend (TencentCloudChat) events and   *)
(* the heartbeat sweep.                                                    *)
(*                                                                         *)
(* Execution model.  Node runs one callback at a time and drains the       *)
(* microtask queue before it takes the next I/O event.  An async function  *)
(* is therefore modelled as a task that runs from one suspension point     *)
(* (an await on the network, on the SDK, on a timer, or on another task's  *)
(* promise) to the next in one step.  Steps that resume a task on an       *)
(* already settled promise are "internal"; steps that deliver an I/O event *)
(* (a WebSocket message, a network reply, an SDK event, a timer) are taken *)
(* only when no internal step is pending (Quiescent).  The order of two    *)
(* pending internal steps is left open.                                    *)
(*                                                                         *)
(* JavaScript strings are sequences of tokens: " " is white space,         *)
(* "game_" is the account prefix, any other token is a run of other        *)
(* characters.  null, undefined and '' are the empty sequence (all falsy). *)
(***************************************************************************)
EXTENDS Naturals, Sequences, FiniteSets, TLC

\* ------------------------------------------------------------------ bounds
\* Spec: one connection; login, logout, sendCommand and backend events
MaxLogin == 1
MaxLogout == 1
MaxSend == 2
MaxEvents == 1
\* SpecRelogin: one connection that logs in again while sends are queued
ReMaxLogin == 2
ReMaxSend == 3
\* SpecLive: one connection under the heartbeat; the client may go away
LiveMaxLogin == 1
LiveMaxSend == 2
LiveMaxSweep == 3
LiveMaxClose == 1
\* SpecDown: one connection that logs out repeatedly and may go away
DownMaxLogin == 1
DownMaxLogout == 2
DownMaxSend == 1
DownMaxClose == 1
\* SpecTargets: one connection whose sendCommands name a recipient
TgtMaxLogin == 2
TgtMaxSend == 1
\* SpecAdmin: the HTTP API's adminClient, or one connection, on its own
AdmMaxLogin == 2
AdmMaxSend == 2
AdmMaxEvents == 1
\* SpecTwo: two sessions side by side (two connections, or one and the admin)
TwoMaxLogin == 2
TwoMaxLogout == 1
TwoMaxSend == 1
TwoMaxEvents == 1
TwoMaxClose == 1
\* SpecBridge: the bridge service; logins by HTTP or WebSocket, backend events
BrMaxLogin == 1
BrMaxEvents == 2
\* SpecParse: one connection whose logins may be malformed
ParMaxLogin == 2
ParMaxSend == 1
ParMaxEvents == 1
\* SpecGame2: the game2 session API; requests received, requests in flight
\* at once, the largest seq a client sends
G2MaxRequests == 3
G2MaxInFlight == 2
G2MaxSeq == 2
\* SpecSdk: one page using the browser SDK; calls of connect(), messages
SdkMaxCalls == 4
SdkMaxMsgs == 3

\* ------------------------------------------------------------------ strings
NULL == <<>>
SP == " "
GAME == "game_"

RECURSIVE TrimLeft(_)
TrimLeft(s) == IF s # <<>> /\ Head(s) = SP THEN TrimLeft(Tail(s)) ELSE s

RECURSIVE TrimRight(_)
TrimRight(s) ==
  IF s # <<>> /\ s[Len(s)] = SP THEN TrimRight(SubSeq(s, 1, Len(s) - 1)) ELSE s

\* String.prototype.trim
Trim(s) == TrimRight(TrimLeft(s))

\* s.split(/\s+/).map(trim).filter(Boolean): the white-space separated words
RECURSIVE SplitFrom(_, _, _)
SplitFrom(s, cur, acc) ==
  IF s = <<>> THEN (IF cur = <<>> THEN acc ELSE Append(acc, cur))
  ELSE IF Head(s) = SP
       THEN SplitFrom(Tail(s), <<>>, IF cur = <<>> THEN acc ELSE Append(acc, cur))
       ELSE SplitFrom(Tail(s), Append(cur, Head(s)), acc)

splitBySpace(s) == SplitFrom(s, <<>>, <<>>)

\* words.join(' ')
RECURSIVE JoinSpace(_)
JoinSpace(ws) ==
  IF ws = <<>> THEN <<>>
  ELSE IF Len(ws) = 1 THEN ws[1]
  ELSE ws[1] \o <<SP>> \o JoinSpace(Tail(ws))

normalizeUid(input) ==
  IF input = <<>> THEN NULL
  ELSE LET s == Trim(input) IN
       IF s = <<>> THEN NULL
       ELSE IF Head(s) = GAME THEN Tail(s) ELSE s

toGameUid(input) ==
  LET uid == normalizeUid(input) IN
  IF uid # <<>> THEN <<GAME>> \o uid ELSE NULL

parseUidToken(uidInput, tokenInput) ==
  LET rawUid == Trim(uidInput)
      rawToken == Trim(tokenInput)
      tokenParts == splitBySpace(rawToken)
      uidParts == splitBySpace(rawUid)
      uid1 == IF Len(tokenParts) >= 2 THEN tokenParts[1] ELSE rawUid
      tok1 == IF Len(tokenParts) >= 2 THEN JoinSpace(Tail(tokenParts)) ELSE rawToken
      uid2 == IF Len(uidParts) >= 2 THEN uidParts[1] ELSE uid1
      tok2 == IF Len(uidParts) >= 2 THEN JoinSpace(Tail(uidParts)) ELSE tok1
  IN [uid |-> normalizeUid(uid2),
      token |-> Trim(tok2),
      usedConnectCode |-> (Len(tokenParts) >= 2 \/ Len(uidParts) >= 2)]

\* Array.from(new Set(xs)): first occurrences, in order
RECURSIVE Dedup(_, _)
Dedup(xs, acc) ==
  IF xs = <<>> THEN acc
  ELSE IF \E k \in 1..Len(acc) : acc[k] = Head(xs)
       THEN Dedup(Tail(xs), acc)
       ELSE Dedup(Tail(xs), Append(acc, Head(xs)))

RECURSIVE MapNormalize(_)
MapNormalize(xs) ==
  IF xs = <<>> THEN <<>> ELSE <<normalizeUid(Head(xs))>> \o MapNormalize(Tail(xs))

RECURSIVE FilterTruthy(_)
FilterTruthy(xs) ==
  IF xs = <<>> THEN <<>>
  ELSE IF Head(xs) # <<>> THEN <<Head(xs)>> \o FilterTruthy(Tail(xs))
       ELSE FilterTruthy(Tail(xs))

\* the recipient candidates taken in another order: the caller-supplied
\* identity first
TargetsSessionFirst(targetId, gameCmdTo, imUserId, sessionUid) ==
  Dedup(FilterTruthy(MapNormalize(FilterTruthy(
          <<sessionUid, targetId, gameCmdTo, imUserId>>))), <<>>)

\* the recipient candidates of a sendCommand
Targets(targetId, gameCmdTo, imUserId, sessionUid) ==
  Dedup(FilterTruthy(MapNormalize(FilterTruthy(
          <<targetId, gameCmdTo, imUserId, sessionUid>>))), <<>>)

\* ------------------------------------------------------------------ state
\* the ChatClients: one per WebSocket connection, and the adminClient of the
\* HTTP API.  For "admin", sess holds adminConfig.
Clients == {"ws1", "ws2", "admin"}

\* process.env.GAME_CMD_TO
GAME_CMD_TO == <<"hub">>

\* what the clients send
LoginInputs ==
  { [uid |-> <<"u1">>, token |-> <<"t1">>],
    [uid |-> <<GAME, "u2">>, token |-> <<"t2">>] }

\* login messages with a part missing or blank, with nothing left after the
\* game_ prefix, and connect codes ("uid token") pasted into either field
OddLoginInputs ==
  { [uid |-> NULL, token |-> <<"t1">>],
    [uid |-> <<"u1">>, token |-> NULL],
    [uid |-> <<SP>>, token |-> <<"t1">>],
    [uid |-> <<GAME>>, token |-> <<"t1">>],
    [uid |-> <<"u1">>, token |-> <<SP, SP>>],
    [uid |-> NULL, token |-> <<"u2", SP, "t2">>],
    [uid |-> <<GAME, "u2", SP, SP, "t2">>, token |-> NULL],
    [uid |-> <<GAME, SP, "t2">>, token |-> <<"t1">>] }

SendInputs ==
  { [targetId |-> NULL, payload |-> TRUE],
    [targetId |-> NULL, payload |-> FALSE] }

\* msg.targetId of a sendCommand: absent, blank, plain, prefixed, or one of
\* the other candidates
TargetIds == { NULL, <<SP>>, <<"u1">>, <<GAME, "x">>, <<"hub">> }

TargetInputs == { [targetId |-> t, payload |-> TRUE] : t \in TargetIds }

\* process.env.GAME_CMD_TO: unset, a hub account, or the user's own account
CmdToChoices == { NULL, <<"hub">>, <<GAME, "u1">> }

VARIABLES
  im,      \* per client: the ChatClient's fields
  sess,    \* per client: the WebSocket connection and its session record
  chats,   \* per client: the transport handles TencentCloudChat.create returned
  inits,   \* per client: the executions of _initIM (one promise each)
  sends,   \* per client: the calls of sendToC2C, in submission order
  hands,   \* per client: the message/close handler invocations
  wire,    \* per client: the chat.sendMessage invocations, in order
  evs,     \* per client: backend not-ready / kicked-out events delivered
  hb,      \* heartbeat: sweeps run so far
  lim,     \* how many inputs of each kind the environment offers, and the
           \* process environment (cmdTo is process.env.GAME_CMD_TO); clients:
           \* who uses the gateway (which connections are made, the HTTP API)
  bridge,  \* the bridge service (src/unnamed/part_003), a process of its own:
           \* its global chat and isReady, the IM instances it created, its
           \* running initIM / login tasks and its pending reconnect timers
  sdk,     \* the browser SDK (src/yidimension-sdk.js), one page: the
           \* YiDimension object, the sockets it created, its pending timers
  game2    \* the game2 session API (src/unnamed/part_000): its sqlite tables
           \* and the requests being handled

vars == <<im, sess, chats, inits, sends, hands, wire, evs, hb, lim, bridge, sdk, game2>>

\* new ChatClient()
NewChatClient ==
  [chat |-> 0, uid |-> NULL, token |-> NULL, userId |-> NULL, userSig |-> NULL,
   initialized |-> FALSE, isReady |-> FALSE, initPromise |-> 0, sendQueue |-> 0,
   destroyed |-> FALSE, curUid |-> NULL, curToken |-> NULL,
   gen |-> 0]   \* gen (history): how often initPromise was cleared or replaced

\* the session record of wss.on('connection'), before the connection exists
NoSession ==
  [conn |-> "none", reg |-> FALSE, isAlive |-> FALSE, term |-> FALSE,
   uid |-> NULL, token |-> NULL, isReady |-> FALSE,
   missed |-> 0,      \* (history) sweeps since a probe went unanswered
   kicked |-> FALSE]  \* (history) KICKED_OUT seen since the last loginWith

NoHandler ==
  [kind |-> "none", pc |-> "done", p |-> 0, h |-> 0, sid |-> 0, idx |-> 0,
   uid |-> NULL, token |-> NULL,
   targets |-> <<>>, tried |-> <<>>, okTo |-> NULL, res |-> "none", dlv |-> "none",
   targetId |-> NULL, \* (history) msg.targetId of a sendCommand
   code |-> 0,        \* the HTTP status of an answered admin request
   kres |-> FALSE]    \* (history) the result was produced after a KICKED_OUT

Limits ==
  [login |-> MaxLogin, logout |-> MaxLogout, send |-> MaxSend,
   ev |-> MaxEvents, sweep |-> 0, close |-> 0, cmdTo |-> GAME_CMD_TO,
   clients |-> {"ws1"}, malformed |-> FALSE]

ReLimits ==
  [login |-> ReMaxLogin, logout |-> 0, send |-> ReMaxSend,
   ev |-> 0, sweep |-> 0, close |-> 0, cmdTo |-> GAME_CMD_TO,
   clients |-> {"ws1"}, malformed |-> FALSE]

LiveLimits ==
  [login |-> LiveMaxLogin, logout |-> 0, send |-> LiveMaxSend,
   ev |-> 0, sweep |-> LiveMaxSweep, close |-> LiveMaxClose, cmdTo |-> GAME_CMD_TO,
   clients |-> {"ws1"}, malformed |-> FALSE]

DownLimits ==
  [login |-> DownMaxLogin, logout |-> DownMaxLogout, send |-> DownMaxSend,
   ev |-> 0, sweep |-> 0, close |-> DownMaxClose, cmdTo |-> GAME_CMD_TO,
   clients |-> {"ws1"}, malformed |-> FALSE]

TargetLimits ==
  [login |-> TgtMaxLogin, logout |-> 0, send |-> TgtMaxSend,
   ev |-> 0, sweep |-> 0, close |-> 0, cmdTo |-> GAME_CMD_TO,
   clients |-> {"ws1"}, malformed |-> FALSE]

AdminLimits ==
  [login |-> AdmMaxLogin, logout |-> 0, send |-> AdmMaxSend,
   ev |-> AdmMaxEvents, sweep |-> 0, close |-> 0, cmdTo |-> GAME_CMD_TO,
   clients |-> {"admin"}, malformed |-> FALSE]

TwoLimits ==
  [login |-> TwoMaxLogin, logout |-> TwoMaxLogout, send |-> TwoMaxSend,
   ev |-> TwoMaxEvents, sweep |-> 0, close |-> TwoMaxClose, cmdTo |-> GAME_CMD_TO,
   clients |-> {"ws1", "ws2"}, malformed |-> FALSE]

BridgeLimits ==
  [login |-> BrMaxLogin, logout |-> 0, send |-> 0,
   ev |-> BrMaxEvents, sweep |-> 0, close |-> 0, cmdTo |-> GAME_CMD_TO,
   clients |-> {}, malformed |-> FALSE]

ParseLimits ==
  [login |-> ParMaxLogin, logout |-> 0, send |-> ParMaxSend,
   ev |-> ParMaxEvents, sweep |-> 0, close |-> 0, cmdTo |-> GAME_CMD_TO,
   clients |-> {"ws1"}, malformed |-> TRUE]

\* nobody uses the gateway
IdleLimits ==
  [login |-> 0, logout |-> 0, send |-> 0,
   ev |-> 0, sweep |-> 0, close |-> 0, cmdTo |-> GAME_CMD_TO,
   clients |-> {}, malformed |-> FALSE]

\* the bridge service before startServer()
NoBridge ==
  [chat |-> 0, isReady |-> FALSE, handles |-> <<>>, tasks |-> <<>>,
   timers |-> 0, events |-> 0]

\* a task of the bridge up to its first await: initIM ("init"), the
\* /api/login handler ("http") or the WebSocket login handler ("ws"), each
\* having called requestGameSign
BrTask(kind) == [kind |-> kind, pc |-> "sign", h |-> 0, waitH |-> 0, res |-> "none"]

GatewayInit ==
  /\ im = [c \in Clients |-> NewChatClient]
  /\ sess = [c \in Clients |-> NoSession]
  /\ chats = [c \in Clients |-> <<>>]
  /\ inits = [c \in Clients |-> <<>>]
  /\ sends = [c \in Clients |-> <<>>]
  /\ hands = [c \in Clients |-> <<>>]
  /\ wire = [c \in Clients |-> <<>>]
  /\ evs = [c \in Clients |-> 0]
  /\ hb = 0

\* the YiDimension object of a page that has not called connect() yet
NoSdk ==
  [socket |-> 0, isConnected |-> FALSE, isIMReady |-> FALSE, retry |-> 0,
   socks |-> <<>>,    \* the WebSockets constructed so far, with their state
   timers |-> 0,      \* pending setTimeout(() => this.connect(), 3000)
   calls |-> 0,       \* (history) calls of connect()
   failed |-> 0,      \* (history) new WebSocket(url) that threw
   scheduled |-> 0,   \* (history) calls of _scheduleReconnect
   msgs |-> 0,        \* (history) messages received
   readyBy |-> 0]     \* (history) the socket whose status message set isIMReady

\* the session ids the clients of the game2 API use (all for one uid)
SessionIds == {"s1", "s2"}

\* no row of table sessions for an id; else the row with what its state_json
\* holds: status, seqState.maxSeq, seqState.handled, currentFlow, the number
\* of flowB.rounds; at is updated_at
NoRow ==
  [exists |-> FALSE, status |-> "none", maxSeq |-> 0, handled |-> {},
   currentFlow |-> "A", rounds |-> 0, at |-> 0]

\* the game2 tables before any request: sessions, the number of events per
\* session, the clock behind nowTs(), and the requests received so far
NoGame2 ==
  [rows |-> [sid \in SessionIds |-> NoRow],
   events |-> [sid \in SessionIds |-> 0],
   clock |-> 0,
   reqs |-> <<>>]

InitState == GatewayInit /\ bridge = NoBridge /\ sdk = NoSdk /\ game2 = NoGame2

\* startServer(): initIM() is called first
InitBridge ==
  /\ GatewayInit
  /\ lim = BridgeLimits
  /\ bridge = [NoBridge EXCEPT !.tasks = <<BrTask("init")>>]
  /\ sdk = NoSdk /\ game2 = NoGame2

Init == InitState /\ lim = Limits

InitRelogin == InitState /\ lim = ReLimits

InitLive == InitState /\ lim = LiveLimits

InitDown == InitState /\ lim = DownLimits

\* the gateway started with any of the GAME_CMD_TO settings
InitTargets ==
  InitState /\ lim \in {[TargetLimits EXCEPT !.cmdTo = g] : g \in CmdToChoices}

\* the gateway used through the HTTP API only, or by one connection only
InitAdmin ==
  InitState /\ lim \in {[AdminLimits EXCEPT !.clients = {c}] : c \in {"admin", "ws1"}}

\* what the users of the gateway do in SpecTwo: log in, send and see backend
\* events; or log in and log out; or log in and go away
TwoProfiles ==
  { [TwoLimits EXCEPT !.logout = 0, !.close = 0],
    [TwoLimits EXCEPT !.send = 0, !.ev = 0, !.close = 0],
    [TwoLimits EXCEPT !.send = 0, !.ev = 0, !.logout = 0] }

\* the gateway used by two connections, or by one connection and the HTTP API
InitTwo ==
  /\ InitState
  /\ lim \in {[P EXCEPT !.clients = {"ws1", c}] : P \in TwoProfiles, c \in {"ws2", "admin"}}

IsWs(c) == c # "admin"

\* ------------------------------------------------------------------ ChatClient

\* loginWith without the reuse check of lines 164-166
ReuseLoginNever(m) == FALSE

\* loginWith, lines 164-165: already logged in with the same credentials
ReuseLogin(m) ==
  /\ m.initialized /\ m.isReady /\ m.chat # 0
  /\ m.uid = m.curUid /\ m.token = m.curToken

\* ensureReady, line 153
AlreadyReady(m) == m.isReady /\ m.initialized /\ m.chat # 0

\* ensureReady without the guard of line 154: every caller that finds the
\* session not ready starts an initialization of its own
NeedsNewInitAlways(m) == TRUE

\* ensureReady, line 154: only a missing initPromise starts an initialization
NeedsNewInit(m) == m.initPromise = 0

\* destroy, line 322
DestroyNoop(m) == m.chat = 0

\* destroy, the finally block
DestroyFinally(m, keepDestroyedFlag) ==
  [m EXCEPT !.chat = 0, !.initialized = FALSE, !.isReady = FALSE,
            !.initPromise = 0, !.sendQueue = 0,
            !.destroyed = ~keepDestroyedFlag, !.gen = @ + 1]

\* sendToC2C returning a promise that rejects when _doSendToC2C failed
QueueLinkRejectsOnFailure(out) == out = "fail"

\* sendToC2C: the promise it returns is the queue link
\* sendQueue.then(_doSendToC2C).catch(log); the catch handler returns normally,
\* so the link is fulfilled whatever _doSendToC2C did
QueueLinkRejects(out) == FALSE

\* _initIM up to its first await: requestGameSign(gameUid, token) is called
InitRec(m, by) ==
  [pc |-> "sign", gameUid |-> toGameUid(normalizeUid(m.uid)), token |-> m.token,
   h |-> 0, waitH |-> 0, by |-> by, gen |-> m.gen]

\* a transport handle, as TencentCloudChat.create returns it and login is called
HandleRec(userId, sigUid, sigToken) ==
  [st |-> "logging", userId |-> userId, sigUid |-> sigUid, sigToken |-> sigToken]

Settled(c, p) == inits[c][p].pc \in {"ok", "fail"}

\* ------------------------------------------------------------------ pending internal steps
SendCanStart(c, s) ==
  /\ sends[c][s].pc = "queued"
  /\ IF sends[c][s].pred = 0 THEN TRUE ELSE sends[c][sends[c][s].pred].pc = "done"

SendCanResume(c, s) ==
  /\ sends[c][s].pc = "awaitInit"
  /\ Settled(c, sends[c][s].p)

HandCanResumeInit(c, i) ==
  /\ hands[c][i].pc = "awaitInit"
  /\ Settled(c, hands[c][i].p)

HandCanResumeSend(c, i) ==
  /\ hands[c][i].pc = "awaitSend"
  /\ sends[c][hands[c][i].sid].pc = "done"

\* the microtask queue is empty: the event loop takes the next I/O event
Quiescent ==
  \A c \in Clients :
    /\ \A s \in 1..Len(sends[c]) : ~SendCanStart(c, s) /\ ~SendCanResume(c, s)
    /\ \A i \in 1..Len(hands[c]) : ~HandCanResumeInit(c, i) /\ ~HandCanResumeSend(c, i)

CountKind(c, k) == Cardinality({i \in 1..Len(hands[c]) : hands[c][i].kind = k})

\* how many messages or requests of kind k the gateway has received so far
RECURSIVE CountOver(_, _)
CountOver(S, k) ==
  IF S = {} THEN 0
  ELSE LET c == CHOOSE x \in S : TRUE IN CountKind(c, k) + CountOver(S \ {c}, k)

Received(k) == CountOver(Clients, k)

\* how many not-ready / kicked-out events the backend has emitted so far
RECURSIVE EventsOver(_)
EventsOver(S) ==
  IF S = {} THEN 0
  ELSE LET c == CHOOSE x \in S : TRUE IN evs[c] + EventsOver(S \ {c})

Emitted == EventsOver(Clients)

\* a handler that has returned: only its kind, the uid and token it parsed
\* and its result are kept
Done(H, res, dlv) ==
  [NoHandler EXCEPT !.kind = H.kind, !.res = res, !.dlv = dlv,
                    !.uid = H.uid, !.token = H.token,
                    !.targets = H.targets, !.tried = H.tried, !.okTo = H.okTo,
                    !.targetId = H.targetId,
                    !.kres = H.kres]

\* ws.readyState === 1: the socket is open and was not terminated
IsOpen(c) == sess[c].conn = "open" /\ ~sess[c].term

\* wsSend: a notification reaches the client only while the socket is open
Dlv(c) == IF IsOpen(c) THEN "sent" ELSE "dropped"

\* the answer D of a handler of client c: a WebSocket notification, or for
\* the HTTP API the response, res.json (200) or res.status(500).json
Answer(c, D) ==
  IF IsWs(c) THEN D
  ELSE [D EXCEPT !.dlv = "sent", !.code = IF D.res = "ok" THEN 200 ELSE 500]

\* ------------------------------------------------------------------ connection
\* wss.on('connection')
Connect(c) ==
  /\ Quiescent
  /\ IsWs(c)
  /\ c \in lim.clients
  /\ sess[c].conn = "none"
  /\ sess' = [sess EXCEPT ![c] = [NoSession EXCEPT !.conn = "open", !.reg = TRUE,
                                                   !.isAlive = TRUE]]
  /\ UNCHANGED <<im, chats, inits, sends, hands, wire, evs, hb, lim, bridge, sdk, game2>>

\* ------------------------------------------------------------------ destroy and what follows it
\* What a handler does once its call of destroy() has returned; m is the
\* ChatClient after destroy, ch the handles after it.
\*  login:  loginWith lines 171-175, then the handler awaits the initialization
\*  logout: the handler's finally block
\*  close:  nothing more
AfterDestroy(c, i, m, ch) ==
  LET H == hands[c][i] IN
  /\ chats' = [chats EXCEPT ![c] = ch]
  /\ IF H.kind = "login"
     THEN LET m1 == [m EXCEPT !.curUid = m.uid, !.curToken = m.token, !.gen = @ + 1]
              p == Len(inits[c]) + 1
          IN /\ inits' = [inits EXCEPT ![c] = Append(@, InitRec(m1, "login"))]
             /\ im' = [im EXCEPT ![c] = [m1 EXCEPT !.initPromise = p]]
             /\ hands' = [hands EXCEPT ![c][i] =
                            [H EXCEPT !.pc = "awaitInit", !.p = p, !.h = 0]]
             /\ UNCHANGED sess
     ELSE IF H.kind = "logout"
     THEN /\ im' = [im EXCEPT ![c] = m]
          /\ sess' = [sess EXCEPT ![c] = [@ EXCEPT !.isReady = FALSE, !.uid = NULL,
                                                   !.token = NULL]]
          /\ hands' = [hands EXCEPT ![c][i] = Done(H, "ok", Dlv(c))]
          /\ UNCHANGED inits
     ELSE /\ im' = [im EXCEPT ![c] = m]
          /\ hands' = [hands EXCEPT ![c][i] = Done(H, "none", "none")]
          /\ UNCHANGED <<inits, sess>>

\* destroy() called by the handler that was just appended as hands[c][i]
\* (record H, session record s, ChatClient m): returns at once without a
\* handle, else calls chat.logout() and waits
CallDestroy(c, H, s, m) ==
  LET i == Len(hands[c]) + 1 IN
  IF DestroyNoop(m)
  THEN /\ UNCHANGED chats
       /\ IF H.kind = "login"
          THEN LET m1 == [m EXCEPT !.curUid = m.uid, !.curToken = m.token, !.gen = @ + 1]
                   p == Len(inits[c]) + 1
               IN /\ inits' = [inits EXCEPT ![c] = Append(@, InitRec(m1, "login"))]
                  /\ im' = [im EXCEPT ![c] = [m1 EXCEPT !.initPromise = p]]
                  /\ hands' = [hands EXCEPT ![c] =
                                 Append(@, [H EXCEPT !.pc = "awaitInit", !.p = p])]
                  /\ sess' = [sess EXCEPT ![c] = s]
          ELSE IF H.kind = "logout"
          THEN /\ im' = [im EXCEPT ![c] = m]
               /\ sess' = [sess EXCEPT ![c] = [s EXCEPT !.isReady = FALSE, !.uid = NULL,
                                                        !.token = NULL]]
               /\ hands' = [hands EXCEPT ![c] =
                              Append(@, Done(H, "ok", Dlv(c)))]
               /\ UNCHANGED inits
          ELSE /\ im' = [im EXCEPT ![c] = m]
               /\ sess' = [sess EXCEPT ![c] = s]
               /\ hands' = [hands EXCEPT ![c] = Append(@, Done(H, "none", "none"))]
               /\ UNCHANGED inits
  ELSE /\ im' = [im EXCEPT ![c] = m]
       /\ sess' = [sess EXCEPT ![c] = s]
       /\ hands' = [hands EXCEPT ![c] =
                      Append(@, [H EXCEPT !.pc = "logoutWait", !.h = m.chat])]
       /\ UNCHANGED <<chats, inits>>

\* chat.logout() returns to destroy(): on success destroy() goes on to
\* this.chat.destroy(), evaluated on whatever this.chat is by then; a failure
\* (or this.chat being null by then) lands in catch and then finally
LogoutReturn(c, i, ok) ==
  LET H == hands[c][i]
      m == im[c]
      keep == (H.kind = "login")
      ch1 == IF ok /\ chats[c][H.h].st \in {"in", "kicked"}
             THEN [chats[c] EXCEPT ![H.h].st = "out"] ELSE chats[c]
  IN
  /\ Quiescent
  /\ i \in 1..Len(hands[c])
  /\ H.pc = "logoutWait"
  /\ UNCHANGED <<sends, wire, evs, hb, lim, bridge, sdk, game2>>
  /\ IF ok /\ m.chat # 0
     THEN /\ hands' = [hands EXCEPT ![c][i] = [H EXCEPT !.pc = "cdestroyWait", !.h = m.chat]]
          /\ chats' = [chats EXCEPT ![c] = ch1]
          /\ UNCHANGED <<im, sess, inits>>
     ELSE AfterDestroy(c, i, DestroyFinally(m, keep), ch1)

\* chat.destroy() returns: the handle is released; finally; destroy() returns
ChatDestroyReturn(c, i) ==
  LET H == hands[c][i]
      keep == (H.kind = "login")
  IN
  /\ Quiescent
  /\ i \in 1..Len(hands[c])
  /\ H.pc = "cdestroyWait"
  /\ UNCHANGED <<sends, wire, evs, hb, lim, bridge, sdk, game2>>
  /\ AfterDestroy(c, i, DestroyFinally(im[c], keep),
                  [chats[c] EXCEPT ![H.h].st = "dead"])

\* ------------------------------------------------------------------ login / logout / close
\* every connection's first login is the same (the identities are symmetric),
\* unless the clients also send the odd logins (lim.malformed)
LoginChoice(k) ==
  IF lim.malformed THEN LoginInputs \cup OddLoginInputs
  ELSE IF k = 1 THEN {[uid |-> <<"u1">>, token |-> <<"t1">>]} ELSE LoginInputs

\* the login case recording uid and token in the session before it validates
\* them
MsgLoginRecordsFirst(c, inp) ==
  LET parsed == parseUidToken(inp.uid, inp.token)
      H == [NoHandler EXCEPT !.kind = "login", !.uid = parsed.uid, !.token = parsed.token]
      s == [sess[c] EXCEPT !.uid = parsed.uid, !.token = parsed.token, !.kicked = FALSE]
      m == [im[c] EXCEPT !.uid = normalizeUid(parsed.uid), !.token = parsed.token]
  IN
  /\ Quiescent
  /\ IsWs(c)
  /\ IsOpen(c)
  /\ Received("login") < lim.login
  /\ inp \in LoginChoice(CountKind(c, "login") + 1)
  /\ UNCHANGED <<sends, wire, evs, hb, lim, bridge, sdk, game2>>
  /\ IF parsed.uid = NULL \/ parsed.token = NULL
     THEN /\ hands' = [hands EXCEPT ![c] =
                         Append(@, Done(H, "fail", Dlv(c)))]
          /\ sess' = [sess EXCEPT ![c] = s]
          /\ UNCHANGED <<im, chats, inits>>
     ELSE IF ReuseLogin(m)
     THEN /\ im' = [im EXCEPT ![c] = m]
          /\ sess' = [sess EXCEPT ![c] = [s EXCEPT !.isReady = TRUE]]
          /\ hands' = [hands EXCEPT ![c] =
                         Append(@, Done(H, "ok", Dlv(c)))]
          /\ UNCHANGED <<chats, inits>>
     ELSE CallDestroy(c, H, s, m)

\* handleWsMessage case 'login' up to the first suspension of loginWith
MsgLogin(c, inp) ==
  LET parsed == parseUidToken(inp.uid, inp.token)
      H == [NoHandler EXCEPT !.kind = "login", !.uid = parsed.uid, !.token = parsed.token]
      s == [sess[c] EXCEPT !.uid = parsed.uid, !.token = parsed.token, !.kicked = FALSE]
      m == [im[c] EXCEPT !.uid = normalizeUid(parsed.uid), !.token = parsed.token]
  IN
  /\ Quiescent
  /\ IsWs(c)
  /\ IsOpen(c)
  /\ Received("login") < lim.login
  /\ inp \in LoginChoice(CountKind(c, "login") + 1)
  /\ UNCHANGED <<sends, wire, evs, hb, lim, bridge, sdk, game2>>
  /\ IF parsed.uid = NULL \/ parsed.token = NULL
     THEN /\ hands' = [hands EXCEPT ![c] =
                         Append(@, Done(H, "fail", Dlv(c)))]
          /\ UNCHANGED <<im, sess, chats, inits>>
     ELSE IF ReuseLogin(m)
     THEN /\ im' = [im EXCEPT ![c] = m]
          /\ sess' = [sess EXCEPT ![c] = [s EXCEPT !.isReady = TRUE]]
          /\ hands' = [hands EXCEPT ![c] =
                         Append(@, Done(H, "ok", Dlv(c)))]
          /\ UNCHANGED <<chats, inits>>
     ELSE CallDestroy(c, H, s, m)

\* the login handler resumes when the initialization it awaits has settled
LoginResume(c, i) ==
  LET H == hands[c][i]
      ok == inits[c][H.p].pc = "ok"
  IN
  /\ i \in 1..Len(hands[c])
  /\ HandCanResumeInit(c, i)
  /\ sess' = [sess EXCEPT ![c] =
                IF IsWs(c) \/ ~ok THEN [@ EXCEPT !.isReady = ok]
                ELSE [@ EXCEPT !.isReady = TRUE, !.uid = H.uid, !.token = H.token]]
  /\ hands' = [hands EXCEPT ![c][i] =
                 Answer(c, Done(H, IF ok THEN "ok" ELSE "fail", Dlv(c)))]
  /\ UNCHANGED <<im, chats, inits, sends, wire, evs, hb, lim, bridge, sdk, game2>>

\* handleWsMessage case 'logout'
MsgLogout(c) ==
  /\ Quiescent
  /\ IsWs(c)
  /\ IsOpen(c)
  /\ Received("logout") < lim.logout
  /\ UNCHANGED <<sends, wire, evs, hb, lim, bridge, sdk, game2>>
  /\ CallDestroy(c, [NoHandler EXCEPT !.kind = "logout"], sess[c], im[c])

\* ws.on('close'): the client went away, or the sweep terminated the socket
Close(c) ==
  /\ Quiescent
  /\ IsWs(c)
  /\ sess[c].conn = "open"
  /\ sess[c].term \/ Received("close") < lim.close
  /\ UNCHANGED <<sends, wire, evs, hb, lim, bridge, sdk, game2>>
  /\ CallDestroy(c, [NoHandler EXCEPT !.kind = "close"],
                 [sess[c] EXCEPT !.conn = "closed", !.reg = FALSE], im[c])


\* ------------------------------------------------------------------ _initIM
\* an initialization completes: lines 208-210; the 'status' event reaches the
\* connection's onEvent, which copies isReady into the session record
InitComplete(m) == [m EXCEPT !.initialized = TRUE, !.isReady = TRUE]

\* _initIM creating its transport handle before it looks at the outcome of
\* requestGameSign
SignReturnCreatesHandleFirst(c, p, ok) ==
  LET I == inits[c][p]
      h == Len(chats[c]) + 1
  IN
  /\ Quiescent
  /\ p \in 1..Len(inits[c])
  /\ I.pc = "sign"
  /\ UNCHANGED <<sess, sends, hands, wire, evs, hb, lim, bridge, sdk, game2>>
  /\ im' = [im EXCEPT ![c] = [@ EXCEPT !.userSig = <<I.gameUid, I.token>>,
                                        !.userId = I.gameUid, !.chat = h]]
  /\ chats' = [chats EXCEPT ![c] = Append(@, HandleRec(I.gameUid, I.gameUid, I.token))]
  /\ inits' = [inits EXCEPT ![c][p] =
                 IF ok THEN [I EXCEPT !.pc = "login", !.h = h] ELSE [I EXCEPT !.pc = "fail"]]

\* requestGameSign returns, in an _initIM that logs in with the signature
\* kept in this.state from an earlier attempt when there is one
SignReturnReusesSignature(c, p, ok) ==
  LET I == inits[c][p]
      m == im[c]
      h == Len(chats[c]) + 1
      sig == IF m.userSig # NULL THEN m.userSig ELSE <<I.gameUid, I.token>>
  IN
  /\ Quiescent
  /\ p \in 1..Len(inits[c])
  /\ I.pc = "sign"
  /\ UNCHANGED <<sess, sends, hands, wire, evs, hb, lim, bridge, sdk, game2>>
  /\ IF ok
     THEN /\ im' = [im EXCEPT ![c] = [m EXCEPT !.userSig = sig,
                                               !.userId = I.gameUid, !.chat = h]]
          /\ chats' = [chats EXCEPT ![c] =
                         Append(@, HandleRec(I.gameUid, sig[1], sig[2]))]
          /\ inits' = [inits EXCEPT ![c][p] = [I EXCEPT !.pc = "login", !.h = h]]
     ELSE /\ inits' = [inits EXCEPT ![c][p].pc = "fail"]
          /\ UNCHANGED <<im, chats>>

\* requestGameSign returns.  On success _initIM stores the credentials, creates
\* the transport handle, binds the events and calls chat.login with
\* this.state.userId and the signature it just received.
SignReturn(c, p, ok) ==
  LET I == inits[c][p]
      m == im[c]
      h == Len(chats[c]) + 1
  IN
  /\ Quiescent
  /\ p \in 1..Len(inits[c])
  /\ I.pc = "sign"
  /\ UNCHANGED <<sess, sends, hands, wire, evs, hb, lim, bridge, sdk, game2>>
  /\ IF ok
     THEN /\ im' = [im EXCEPT ![c] = [m EXCEPT !.userSig = <<I.gameUid, I.token>>,
                                               !.userId = I.gameUid, !.chat = h]]
          /\ chats' = [chats EXCEPT ![c] =
                         Append(@, HandleRec(I.gameUid, I.gameUid, I.token))]
          /\ inits' = [inits EXCEPT ![c][p] = [I EXCEPT !.pc = "login", !.h = h]]
     ELSE /\ inits' = [inits EXCEPT ![c][p].pc = "fail"]
          /\ UNCHANGED <<im, chats>>

\* chat.login returns.  On success _waitReady runs: it throws without a
\* handle, returns at once when isReady is already set, and otherwise waits
\* for SDK_READY on the handle this.chat names at that moment.
LoginReturn(c, p, ok) ==
  LET I == inits[c][p]
      m == im[c]
      good == ok /\ chats[c][I.h].st = "logging"
  IN
  /\ Quiescent
  /\ p \in 1..Len(inits[c])
  /\ I.pc = "login"
  /\ ok => chats[c][I.h].st = "logging"
  /\ UNCHANGED <<sends, hands, wire, evs, hb, lim, bridge, sdk, game2>>
  /\ chats' = [chats EXCEPT ![c][I.h].st =
                 IF good THEN "in" ELSE IF @ = "logging" THEN "failed" ELSE @]
  /\ IF ~good \/ m.chat = 0
     THEN /\ inits' = [inits EXCEPT ![c][p].pc = "fail"]
          /\ UNCHANGED <<im, sess>>
     ELSE IF m.isReady
     THEN /\ inits' = [inits EXCEPT ![c][p].pc = "ok"]
          /\ im' = [im EXCEPT ![c] = InitComplete(m)]
          /\ sess' = [sess EXCEPT ![c].isReady = IF IsWs(c) THEN TRUE ELSE @]
     ELSE /\ inits' = [inits EXCEPT ![c][p] = [I EXCEPT !.pc = "wait", !.waitH = m.chat]]
          /\ UNCHANGED <<im, sess>>

\* _waitReady without its timer
ReadyTimeoutMissing(c, p) == FALSE /\ UNCHANGED vars

\* _waitReady's timer fires
ReadyTimeout(c, p) ==
  /\ Quiescent
  /\ p \in 1..Len(inits[c])
  /\ inits[c][p].pc = "wait"
  /\ inits' = [inits EXCEPT ![c][p].pc = "fail"]
  /\ UNCHANGED <<im, sess, chats, sends, hands, wire, evs, hb, lim, bridge, sdk, game2>>

\* ------------------------------------------------------------------ backend events
WaitingOn(c, h) == {p \in 1..Len(inits[c]) : inits[c][p].pc = "wait" /\ inits[c][p].waitH = h}

\* SDK_READY on handle h: the bound listener sets isReady; every _waitReady
\* listening on h resolves and its _initIM completes
SdkReady(c, h) ==
  LET W == WaitingOn(c, h)
      m == [im[c] EXCEPT !.isReady = TRUE]
  IN
  /\ Quiescent
  /\ h \in 1..Len(chats[c])
  /\ chats[c][h].st = "in"
  /\ ~im[c].isReady \/ W # {}
  /\ im' = [im EXCEPT ![c] = IF W # {} THEN InitComplete(m) ELSE m]
  /\ inits' = [inits EXCEPT ![c] =
                 [p \in 1..Len(@) |-> IF p \in W THEN [@[p] EXCEPT !.pc = "ok"] ELSE @[p]]]
  /\ sess' = [sess EXCEPT ![c].isReady = IF W # {} /\ IsWs(c) THEN TRUE ELSE @]
  /\ UNCHANGED <<chats, sends, hands, wire, evs, hb, lim, bridge, sdk, game2>>

\* SDK_NOT_READY passed to every connection (broadcast) instead of the
\* connection whose onEvent the ChatClient was constructed with
SdkNotReadyBroadcast(c, h) ==
  /\ Quiescent
  /\ h \in 1..Len(chats[c])
  /\ chats[c][h].st = "in"
  /\ Emitted < lim.ev
  /\ evs' = [evs EXCEPT ![c] = @ + 1]
  /\ im' = [im EXCEPT ![c].isReady = FALSE]
  /\ sess' = [x \in Clients |->
                IF IsWs(x) /\ IsWs(c) THEN [sess[x] EXCEPT !.isReady = FALSE] ELSE sess[x]]
  /\ UNCHANGED <<chats, inits, sends, hands, wire, hb, lim, bridge, sdk, game2>>

\* SDK_NOT_READY on handle h
SdkNotReady(c, h) ==
  /\ Quiescent
  /\ h \in 1..Len(chats[c])
  /\ chats[c][h].st = "in"
  /\ Emitted < lim.ev
  /\ evs' = [evs EXCEPT ![c] = @ + 1]
  /\ im' = [im EXCEPT ![c].isReady = FALSE]
  /\ sess' = [sess EXCEPT ![c].isReady = IF IsWs(c) THEN FALSE ELSE @]
  /\ UNCHANGED <<chats, inits, sends, hands, wire, hb, lim, bridge, sdk, game2>>

\* KICKED_OUT with the readiness flag kept in process state that all
\* ChatClients share, instead of in the ChatClient
KickedOutSharedFlag(c, h) ==
  /\ Quiescent
  /\ h \in 1..Len(chats[c])
  /\ chats[c][h].st = "in"
  /\ Emitted < lim.ev
  /\ evs' = [evs EXCEPT ![c] = @ + 1]
  /\ chats' = [chats EXCEPT ![c][h].st = "kicked"]
  /\ im' = [x \in Clients |-> [im[x] EXCEPT !.isReady = FALSE]]
  /\ sess' = [sess EXCEPT ![c] = [@ EXCEPT !.isReady = IF IsWs(c) THEN FALSE ELSE @,
                                           !.kicked = TRUE]]
  /\ UNCHANGED <<inits, sends, hands, wire, hb, lim, bridge, sdk, game2>>

\* KICKED_OUT with a listener that starts _initIM again by itself
KickedOutReinit(c, h) ==
  LET m == [im[c] EXCEPT !.isReady = FALSE]
      p == Len(inits[c]) + 1
  IN
  /\ Quiescent
  /\ h \in 1..Len(chats[c])
  /\ chats[c][h].st = "in"
  /\ Emitted < lim.ev
  /\ evs' = [evs EXCEPT ![c] = @ + 1]
  /\ chats' = [chats EXCEPT ![c][h].st = "kicked"]
  /\ inits' = [inits EXCEPT ![c] = Append(@, InitRec(m, "ensure"))]
  /\ im' = [im EXCEPT ![c] = [m EXCEPT !.initPromise = p]]
  /\ sess' = [sess EXCEPT ![c] = [@ EXCEPT !.isReady = IF IsWs(c) THEN FALSE ELSE @,
                                           !.kicked = TRUE]]
  /\ UNCHANGED <<sends, hands, wire, hb, lim, bridge, sdk, game2>>

\* KICKED_OUT on handle h: the backend revoked the login
KickedOut(c, h) ==
  /\ Quiescent
  /\ h \in 1..Len(chats[c])
  /\ chats[c][h].st = "in"
  /\ Emitted < lim.ev
  /\ evs' = [evs EXCEPT ![c] = @ + 1]
  /\ chats' = [chats EXCEPT ![c][h].st = "kicked"]
  /\ im' = [im EXCEPT ![c].isReady = FALSE]
  /\ sess' = [sess EXCEPT ![c] = [@ EXCEPT !.isReady = IF IsWs(c) THEN FALSE ELSE @,
                                           !.kicked = TRUE]]
  /\ UNCHANGED <<inits, sends, hands, wire, hb, lim, bridge, sdk, game2>>

\* ------------------------------------------------------------------ sendToC2C
SendRec(pred, to, owner) ==
  [pc |-> "queued", pred |-> pred, to |-> to, owner |-> owner,
   p |-> 0, h |-> 0, out |-> "none", gen |-> 0]

\* _doSendToC2C after ensureReady returned: lines 304-317.  Without a handle
\* or a target it throws; else chat.sendMessage is invoked on this.chat.
SendBody(c, s, m) ==
  LET S == sends[c][s] IN
  IF m.chat = 0 \/ S.to = NULL
  THEN /\ sends' = [sends EXCEPT ![c][s] = [S EXCEPT !.pc = "done", !.out = "fail"]]
       /\ UNCHANGED wire
  ELSE /\ sends' = [sends EXCEPT ![c][s] = [S EXCEPT !.pc = "sending", !.h = m.chat]]
       /\ wire' = [wire EXCEPT ![c] = Append(@, s)]

\* the queue reaches this send: _doSendToC2C starts and calls ensureReady
SendStart(c, s) ==
  LET S == sends[c][s]
      m == [im[c] EXCEPT !.destroyed = FALSE]
  IN
  /\ s \in 1..Len(sends[c])
  /\ SendCanStart(c, s)
  /\ UNCHANGED <<sess, chats, hands, evs, hb, lim, bridge, sdk, game2>>
  /\ IF AlreadyReady(m)
     THEN /\ im' = [im EXCEPT ![c] = m]
          /\ SendBody(c, s, m)
          /\ UNCHANGED inits
     ELSE IF NeedsNewInit(m)
     THEN LET p == Len(inits[c]) + 1 IN
          /\ inits' = [inits EXCEPT ![c] = Append(@, InitRec(m, "ensure"))]
          /\ im' = [im EXCEPT ![c] = [m EXCEPT !.initPromise = p]]
          /\ sends' = [sends EXCEPT ![c][s] =
                         [S EXCEPT !.pc = "awaitInit", !.p = p, !.gen = m.gen]]
          /\ UNCHANGED wire
     ELSE /\ im' = [im EXCEPT ![c] = m]
          /\ sends' = [sends EXCEPT ![c][s] =
                         [S EXCEPT !.pc = "awaitInit", !.p = m.initPromise, !.gen = m.gen]]
          /\ UNCHANGED <<inits, wire>>

\* the initialization ensureReady awaited has settled
SendResume(c, s) ==
  LET S == sends[c][s] IN
  /\ s \in 1..Len(sends[c])
  /\ SendCanResume(c, s)
  /\ UNCHANGED <<im, sess, chats, inits, hands, evs, hb, lim, bridge, sdk, game2>>
  /\ IF inits[c][S.p].pc = "fail"
     THEN /\ sends' = [sends EXCEPT ![c][s] = [S EXCEPT !.pc = "done", !.out = "fail"]]
          /\ UNCHANGED wire
     ELSE SendBody(c, s, im[c])

\* chat.sendMessage returns; it can succeed only on a logged-in handle
SendReturn(c, s, ok) ==
  LET S == sends[c][s] IN
  /\ Quiescent
  /\ s \in 1..Len(sends[c])
  /\ S.pc = "sending"
  /\ ok => chats[c][S.h].st = "in"
  /\ sends' = [sends EXCEPT ![c][s] =
                 [S EXCEPT !.pc = "done", !.out = IF ok THEN "ok" ELSE "fail"]]
  /\ UNCHANGED <<im, sess, chats, inits, hands, wire, evs, hb, lim, bridge, sdk, game2>>

\* ------------------------------------------------------------------ sendCommand
\* sendCommand without the check of line 526
SendGateOpen(s) == TRUE

\* line 526: the readiness gate
SendGate(s) == s.isReady

\* sendToC2C(to, payload) called by handler i: the send joins the queue
Enqueue(c, i, to) ==
  /\ sends' = [sends EXCEPT ![c] = Append(@, SendRec(im[c].sendQueue, to, i))]
  /\ im' = [im EXCEPT ![c].sendQueue = Len(sends[c]) + 1]

\* handleWsMessage case 'sendCommand' up to the first sendToC2C
MsgSend(c, inp) ==
  LET i == Len(hands[c]) + 1
      H == [NoHandler EXCEPT !.kind = "send", !.targetId = inp.targetId]
      T == Targets(inp.targetId, lim.cmdTo, im[c].userId, sess[c].uid)
  IN
  /\ Quiescent
  /\ IsWs(c)
  /\ IsOpen(c)
  /\ Received("send") < lim.send
  /\ UNCHANGED <<chats, inits, wire, evs, hb, lim, bridge, sdk, game2>>
  /\ IF ~SendGate(sess[c]) \/ ~inp.payload
     THEN /\ hands' = [hands EXCEPT ![c] = Append(@, Done(H, "fail", Dlv(c)))]
          /\ UNCHANGED <<im, sess, sends>>
     ELSE IF T = <<>>
     THEN /\ hands' = [hands EXCEPT ![c] = Append(@, Done(H, "fail", Dlv(c)))]
          /\ sess' = [sess EXCEPT ![c].isReady = FALSE]
          /\ UNCHANGED <<im, sends>>
     ELSE /\ hands' = [hands EXCEPT ![c] =
                         Append(@, [H EXCEPT !.pc = "awaitSend", !.targets = T,
                                             !.idx = 1, !.sid = Len(sends[c]) + 1])]
          /\ Enqueue(c, i, T[1])
          /\ UNCHANGED sess

\* the promise sendToC2C returned has settled: lines 596-615.  Each attempt
\* record carries (history) what _doSendToC2C really did, out.
SendCmdResume(c, i) ==
  LET H == hands[c][i]
      S == sends[c][H.sid]
      to == H.targets[H.idx]
      rej == QueueLinkRejects(S.out)
      H1 == [H EXCEPT !.tried = Append(@, [to |-> to, ok |-> ~rej, out |-> S.out]),
                      !.kres = sess[c].kicked]
  IN
  /\ i \in 1..Len(hands[c])
  /\ HandCanResumeSend(c, i)
  /\ UNCHANGED <<chats, inits, wire, evs, hb, lim, bridge, sdk, game2>>
  /\ IF ~rej
     THEN /\ hands' = [hands EXCEPT ![c][i] =
                         Answer(c, Done([H1 EXCEPT !.okTo = to], "ok", Dlv(c)))]
          /\ UNCHANGED <<im, sess, sends>>
     ELSE IF H.idx < Len(H.targets)
     THEN /\ hands' = [hands EXCEPT ![c][i] =
                         [H1 EXCEPT !.idx = @ + 1, !.sid = Len(sends[c]) + 1]]
          /\ Enqueue(c, i, H.targets[H.idx + 1])
          /\ UNCHANGED sess
     ELSE /\ hands' = [hands EXCEPT ![c][i] = Answer(c, Done(H1, "fail", Dlv(c)))]
          /\ sess' = [sess EXCEPT ![c].isReady = FALSE]
          /\ UNCHANGED <<im, sends>>

\* ------------------------------------------------------------------ HTTP API (adminClient)
\* line 421: the readiness gate of /api/send-command reads adminConfig
AdminGate(a) == a.isReady

\* an HTTP response with a status the handler chose itself
Respond(H, code) == [Done(H, "fail", "sent") EXCEPT !.code = code]

\* app.post('/api/login') up to the first suspension of loginWith
\* (/api/reinit does the same with the uid and token of state.json)
AdminLogin(inp) ==
  LET c == "admin"
      parsed == parseUidToken(inp.uid, inp.token)
      H == [NoHandler EXCEPT !.kind = "login", !.uid = parsed.uid, !.token = parsed.token]
      s == [sess[c] EXCEPT !.kicked = FALSE]
      m == [im[c] EXCEPT !.uid = normalizeUid(parsed.uid), !.token = parsed.token]
  IN
  /\ Quiescent
  /\ c \in lim.clients
  /\ Received("login") < lim.login
  /\ inp \in LoginChoice(CountKind(c, "login") + 1)
  /\ UNCHANGED <<sends, wire, evs, hb, lim, bridge, sdk, game2>>
  /\ IF parsed.uid = NULL \/ parsed.token = NULL
     THEN /\ hands' = [hands EXCEPT ![c] = Append(@, Respond(H, 400))]
          /\ UNCHANGED <<im, sess, chats, inits>>
     ELSE IF ReuseLogin(m)
     THEN /\ im' = [im EXCEPT ![c] = m]
          /\ sess' = [sess EXCEPT ![c] = [s EXCEPT !.isReady = TRUE, !.uid = parsed.uid,
                                                   !.token = parsed.token]]
          /\ hands' = [hands EXCEPT ![c] = Append(@, Answer(c, Done(H, "ok", "sent")))]
          /\ UNCHANGED <<chats, inits>>
     ELSE CallDestroy(c, H, s, m)

\* app.post('/api/send-command') up to sendToC2C
AdminSend(inp) ==
  LET c == "admin"
      i == Len(hands[c]) + 1
      H == [NoHandler EXCEPT !.kind = "send", !.targetId = inp.targetId]
      to == normalizeUid(IF inp.targetId # NULL THEN inp.targetId ELSE sess[c].uid)
  IN
  /\ Quiescent
  /\ c \in lim.clients
  /\ Received("send") < lim.send
  /\ UNCHANGED <<chats, inits, wire, evs, hb, lim, bridge, sdk, game2>>
  /\ IF ~AdminGate(sess[c])
     THEN /\ hands' = [hands EXCEPT ![c] = Append(@, Respond(H, 503))]
          /\ UNCHANGED <<im, sess, sends>>
     ELSE IF ~inp.payload
     THEN /\ hands' = [hands EXCEPT ![c] = Append(@, Respond(H, 400))]
          /\ UNCHANGED <<im, sess, sends>>
     ELSE /\ hands' = [hands EXCEPT ![c] =
                         Append(@, [H EXCEPT !.pc = "awaitSend", !.targets = <<to>>,
                                             !.idx = 1, !.sid = Len(sends[c]) + 1])]
          /\ Enqueue(c, i, to)
          /\ UNCHANGED sess

\* ------------------------------------------------------------------ heartbeat
\* ws.on('pong')
Pong(c) ==
  /\ Quiescent
  /\ IsWs(c)
  /\ IsOpen(c)
  /\ ~sess[c].isAlive
  /\ sess' = [sess EXCEPT ![c] = [@ EXCEPT !.isAlive = TRUE, !.missed = 0]]
  /\ UNCHANGED <<im, chats, inits, sends, hands, wire, evs, hb, lim, bridge, sdk, game2>>

\* the heartbeat terminating every registered connection it finds, whether
\* or not the connection has answered the last probe
SweepOneUnconditional(s) ==
  IF s.conn # "open" \/ ~s.reg
  THEN [s EXCEPT !.missed = IF s.term THEN @ + 1 ELSE @]
  ELSE [s EXCEPT !.term = TRUE, !.reg = FALSE, !.missed = @ + 1]

\* one run of the heartbeat interval over wss.clients
SweepOne(s) ==
  IF s.conn # "open" \/ ~s.reg
  THEN [s EXCEPT !.missed = IF s.term THEN @ + 1 ELSE @]
  ELSE IF ~s.isAlive
  THEN [s EXCEPT !.term = TRUE, !.reg = FALSE, !.missed = @ + 1]
  ELSE [s EXCEPT !.isAlive = FALSE]

Sweep ==
  /\ Quiescent
  /\ hb < lim.sweep
  /\ \E c \in Clients : sess[c].conn # "none"
  /\ hb' = hb + 1
  /\ sess' = [c \in Clients |-> SweepOne(sess[c])]
  /\ UNCHANGED <<im, chats, inits, sends, hands, wire, evs, lim, bridge, sdk, game2>>

\* ------------------------------------------------------------------ bridge service
gateway == <<im, sess, chats, inits, sends, hands, wire, evs, hb>>

\* startServer has got past its await initIM(): the HTTP and WebSocket
\* servers exist
Listening == bridge.tasks # <<>> /\ bridge.tasks[1].pc = "done"

BrLogins == Cardinality({t \in 1..Len(bridge.tasks) : bridge.tasks[t].kind # "init"})

\* chat = TencentCloudChat.create(...); the task binds its event listeners
\* and calls chat.login
BrCreate(B, t) ==
  LET h == Len(B.handles) + 1 IN
  [B EXCEPT !.handles = Append(@, [st |-> "logging", by |-> B.tasks[t].kind]),
            !.chat = h,
            !.tasks[t] = [@ EXCEPT !.pc = "login", !.h = h]]

\* the catch block of a task: initIM and /api/login clear isReady, the
\* WebSocket login does not
BrCatch(B, t) ==
  [B EXCEPT !.isReady = IF B.tasks[t].kind = "ws" THEN @ ELSE FALSE,
            !.tasks[t] = [@ EXCEPT !.pc = "done", !.res = "fail"]]

\* POST /api/login ("http") or a WebSocket login message ("ws")
BrLogin(kind) ==
  /\ Listening
  /\ BrLogins < lim.login
  /\ bridge' = [bridge EXCEPT !.tasks = Append(@, BrTask(kind))]
  /\ UNCHANGED <<gateway, lim, sdk, game2>>

\* requestGameSign returns: on failure the task ends; else the old instance,
\* if there is one, is logged out, and without one the new one is created
BrSignReturn(t, ok) ==
  /\ t \in 1..Len(bridge.tasks)
  /\ bridge.tasks[t].pc = "sign"
  /\ bridge' = IF ~ok
               THEN [bridge EXCEPT !.tasks[t] = [@ EXCEPT !.pc = "done", !.res = "fail"]]
               ELSE IF bridge.chat # 0
               THEN [bridge EXCEPT !.tasks[t] = [@ EXCEPT !.pc = "logout", !.h = bridge.chat]]
               ELSE BrCreate(bridge, t)
  /\ UNCHANGED <<gateway, lim, sdk, game2>>

\* chat.logout() of the old instance returns: on success chat.destroy() is
\* called on the global chat, on failure the task goes on to create
BrLogoutReturn(t, ok) ==
  LET T == bridge.tasks[t]
      B == [bridge EXCEPT !.handles[T.h].st = IF ok /\ @ \in {"in", "kicked"} THEN "out" ELSE @]
  IN
  /\ t \in 1..Len(bridge.tasks)
  /\ T.pc = "logout"
  /\ bridge' = IF ok
               THEN [B EXCEPT !.tasks[t] = [@ EXCEPT !.pc = "destroy", !.h = bridge.chat]]
               ELSE BrCreate(B, t)
  /\ UNCHANGED <<gateway, lim, sdk, game2>>

\* chat.destroy() returns: the instance is released and the new one created
BrDestroyReturn(t) ==
  /\ t \in 1..Len(bridge.tasks)
  /\ bridge.tasks[t].pc = "destroy"
  /\ bridge' = BrCreate([bridge EXCEPT !.handles[bridge.tasks[t].h].st = "dead"], t)
  /\ UNCHANGED <<gateway, lim, sdk, game2>>

\* chat.login returns; on success waitReady returns at once when isReady is
\* set and otherwise listens for SDK_READY on the global chat
BrLoginReturn(t, ok) ==
  LET T == bridge.tasks[t] IN
  /\ t \in 1..Len(bridge.tasks)
  /\ T.pc = "login"
  /\ ok => bridge.handles[T.h].st = "logging"
  /\ bridge' = IF ~ok
               THEN BrCatch([bridge EXCEPT !.handles[T.h].st =
                                             IF @ = "logging" THEN "failed" ELSE @], t)
               ELSE IF bridge.isReady
               THEN [bridge EXCEPT !.handles[T.h].st = "in",
                                   !.tasks[t] = [@ EXCEPT !.pc = "done", !.res = "ok"]]
               ELSE [bridge EXCEPT !.handles[T.h].st = "in",
                                   !.tasks[t] = [@ EXCEPT !.pc = "wait", !.waitH = bridge.chat]]
  /\ UNCHANGED <<gateway, lim, sdk, game2>>

\* waitReady's timer fires
BrReadyTimeout(t) ==
  /\ t \in 1..Len(bridge.tasks)
  /\ bridge.tasks[t].pc = "wait"
  /\ bridge' = BrCatch(bridge, t)
  /\ UNCHANGED <<gateway, lim, sdk, game2>>

\* SDK_READY on instance h
BrSdkReady(h) ==
  LET W == {t \in 1..Len(bridge.tasks) :
              bridge.tasks[t].pc = "wait" /\ bridge.tasks[t].waitH = h}
  IN
  /\ h \in 1..Len(bridge.handles)
  /\ bridge.handles[h].st = "in"
  /\ ~bridge.isReady \/ W # {}
  /\ bridge' = [bridge EXCEPT
                  !.isReady = TRUE,
                  !.tasks = [t \in 1..Len(@) |->
                               IF t \in W THEN [@[t] EXCEPT !.pc = "done", !.res = "ok"]
                               ELSE @[t]]]
  /\ UNCHANGED <<gateway, lim, sdk, game2>>

\* SDK_NOT_READY on instance h
BrSdkNotReady(h) ==
  /\ h \in 1..Len(bridge.handles)
  /\ bridge.handles[h].st = "in"
  /\ bridge.events < lim.ev
  /\ bridge' = [bridge EXCEPT !.isReady = FALSE, !.events = @ + 1]
  /\ UNCHANGED <<gateway, lim, sdk, game2>>

\* the KICKED_OUT listener bound by the task that created the instance:
\* those of initIM and of /api/login set the 5 s reconnect timer, the one of
\* the WebSocket login does not
SetsReconnectTimer(by) == by \in {"init", "http"}

\* KICKED_OUT on instance h
BrKickedOut(h) ==
  /\ h \in 1..Len(bridge.handles)
  /\ bridge.handles[h].st = "in"
  /\ bridge.events < lim.ev
  /\ bridge' = [bridge EXCEPT
                  !.isReady = FALSE, !.events = @ + 1,
                  !.handles[h].st = "kicked",
                  !.timers = IF SetsReconnectTimer(bridge.handles[h].by) THEN @ + 1 ELSE @]
  /\ UNCHANGED <<gateway, lim, sdk, game2>>

\* a reconnect timer fires: initIM()
BrTimerFires ==
  /\ bridge.timers > 0
  /\ bridge' = [bridge EXCEPT !.timers = @ - 1, !.tasks = Append(@, BrTask("init"))]
  /\ UNCHANGED <<gateway, lim, sdk, game2>>

\* ------------------------------------------------------------------ browser SDK
\* _scheduleReconnect: count the retry and set the 3-second timer
ScheduleReconnect(S) ==
  [S EXCEPT !.retry = @ + 1, !.timers = @ + 1, !.scheduled = @ + 1]

\* connect(): new WebSocket(url) returns a socket, whose handlers are then
\* bound, or throws, and then the reconnect is scheduled
ConnectBody(S, ok) ==
  IF ok
  THEN [S EXCEPT !.calls = @ + 1, !.socks = Append(@, "connecting"),
                 !.socket = Len(S.socks) + 1]
  ELSE ScheduleReconnect([S EXCEPT !.calls = @ + 1, !.failed = @ + 1])

\* the page calls YiDimension.connect()
PageConnects(ok) ==
  /\ sdk.calls = 0
  /\ sdk' = ConnectBody(sdk, ok)
  /\ UNCHANGED <<gateway, lim, bridge, game2>>

\* the timer of _scheduleReconnect fires: connect()
ReconnectTimerFires(ok) ==
  /\ sdk.timers > 0
  /\ sdk.calls < SdkMaxCalls
  /\ sdk' = ConnectBody([sdk EXCEPT !.timers = @ - 1], ok)
  /\ UNCHANGED <<gateway, lim, bridge, game2>>

\* ws.onopen
SocketOpen(k) ==
  /\ k \in 1..Len(sdk.socks)
  /\ sdk.socks[k] = "connecting"
  /\ sdk' = [sdk EXCEPT !.socks[k] = "open", !.isConnected = TRUE,
                        !.isIMReady = FALSE, !.retry = 0]
  /\ UNCHANGED <<gateway, lim, bridge, game2>>

\* ws.onmessage with {type: "status", isReady}
StatusMessage(k, isReady) ==
  /\ k \in 1..Len(sdk.socks)
  /\ sdk.socks[k] = "open"
  /\ sdk.msgs < SdkMaxMsgs
  /\ sdk' = [sdk EXCEPT !.isIMReady = isReady, !.msgs = @ + 1,
                        !.readyBy = IF isReady THEN k ELSE @]
  /\ UNCHANGED <<gateway, lim, bridge, game2>>

\* ws.onmessage with a KICKED_OUT or SDK_NOT_READY event
NotReadyMessage(k) ==
  /\ k \in 1..Len(sdk.socks)
  /\ sdk.socks[k] = "open"
  /\ sdk.msgs < SdkMaxMsgs
  /\ sdk' = [sdk EXCEPT !.isIMReady = FALSE, !.msgs = @ + 1]
  /\ UNCHANGED <<gateway, lim, bridge, game2>>

\* ws.onclose that schedules a reconnect only after an open connection
SocketCloseAfterOpenOnly(k) ==
  /\ k \in 1..Len(sdk.socks)
  /\ sdk.socks[k] \in {"connecting", "open"}
  /\ sdk' = LET S == [sdk EXCEPT !.socks[k] = "closed", !.isConnected = FALSE,
                                 !.isIMReady = FALSE]
            IN IF sdk.socks[k] = "open" THEN ScheduleReconnect(S) ELSE S
  /\ UNCHANGED <<gateway, lim, bridge, game2>>

\* ws.onclose: of an open socket, or of one whose connection failed
SocketClose(k) ==
  /\ k \in 1..Len(sdk.socks)
  /\ sdk.socks[k] \in {"connecting", "open"}
  /\ sdk' = ScheduleReconnect([sdk EXCEPT !.socks[k] = "closed", !.isConnected = FALSE,
                                          !.isIMReady = FALSE])
  /\ UNCHANGED <<gateway, lim, bridge, game2>>

\* ------------------------------------------------------------------ game2 session API
TERMINAL_STATUS == {"complete", "aborted", "complete_with_warning"}

\* config.flow.tolerance
minRounds == 4
maxRounds == 6
stableWindow == 3

\* what the clients of the game2 API send
Game2Requests ==
  [kind : {"start"}, sid : SessionIds, seq : 0..G2MaxSeq, arg : {"none"}]
  \cup [kind : {"progress"}, sid : SessionIds, seq : 0..G2MaxSeq,
        arg : {"interrupted", "frequency_select", "converging", "diverging", "unknown"}]
  \cup [kind : {"complete"}, sid : SessionIds, seq : 0..G2MaxSeq,
        arg : {"complete", "complete_with_warning"}]
  \cup [kind : {"reset"}, sid : {"s1"}, seq : {0}, arg : {"soft", "hard"}]

\* the idempotency type of a request: start, progress:<action>, complete;
\* a tolerance_stop is one action whatever the elapsedSec it carries
IdemType(q) ==
  IF q.kind = "progress"
  THEN <<"progress", IF q.arg \in {"converging", "diverging"} THEN "tolerance_stop" ELSE q.arg>>
  ELSE <<q.kind, "">>

\* a request being handled: the request, where its handler is, the session
\* row it is about to write (built from the row it read), and its answer
G2Task(q) ==
  [q |-> q, pc |-> IF q.kind \in {"start", "reset"} THEN "active" ELSE "row",
   wsid |-> q.sid, W |-> NoRow, res |-> "none"]

\* isDupByIdempotency
isDupByIdempotency(R, type, seq) == <<type, seq>> \in R.handled

\* markIdempotent
markIdempotent(R, type, seq) ==
  [R EXCEPT !.handled = @ \cup {<<type, seq>>},
            !.maxSeq = IF seq > @ THEN seq ELSE @]

\* if (seq) markIdempotent(...): seq 0 stands for a request without seq
MarkIfSeq(R, q) == IF q.seq # 0 THEN markIdempotent(R, IdemType(q), q.seq) ELSE R

\* getActiveSession: the most recently updated session whose status is not
\* terminal, or "none"
NonTerminal(G) ==
  {sid \in SessionIds : G.rows[sid].exists /\ G.rows[sid].status \notin TERMINAL_STATUS}

getActiveSession(G) ==
  IF NonTerminal(G) = {} THEN "none"
  ELSE CHOOSE sid \in NonTerminal(G) :
         \A o \in NonTerminal(G) : G.rows[o].at <= G.rows[sid].at

\* the handler of task t returns with answer res
G2Answer(G, t, res) == [G EXCEPT !.reqs[t] = [@ EXCEPT !.pc = "done", !.res = res]]

\* the handler of task t goes on to persistSession with row W of session sid
G2ToPersist(G, t, sid, W) ==
  [G EXCEPT !.reqs[t] = [@ EXCEPT !.pc = "persist", !.wsid = sid, !.W = W]]

\* POST session/progress, the action branches on the state just read
ProgressApply(R, q) ==
  IF q.arg = "interrupted" THEN [R EXCEPT !.status = "interrupted"]
  ELSE IF q.arg = "frequency_select" THEN [R EXCEPT !.currentFlow = "B"]
  ELSE LET n == R.rounds + 1
           converged == q.arg = "converging" /\ n >= stableWindow
       IN [R EXCEPT !.rounds = n,
                    !.status = IF n >= minRounds /\ converged THEN "complete"
                               ELSE IF n >= maxRounds /\ ~converged
                               THEN "complete_with_warning" ELSE @]

\* a request arrives; its handler runs up to its first database call
G2Receive(q) ==
  /\ Len(game2.reqs) < G2MaxRequests
  /\ Cardinality({t \in 1..Len(game2.reqs) : game2.reqs[t].pc # "done"}) < G2MaxInFlight
  /\ game2' = [game2 EXCEPT !.reqs = Append(@, G2Task(q))]
  /\ UNCHANGED <<gateway, lim, bridge, sdk>>

\* getActiveSession returns to session/start or to user/reset
G2ActiveReturn(t) ==
  LET T == game2.reqs[t]
      active == getActiveSession(game2)
  IN
  /\ t \in 1..Len(game2.reqs)
  /\ T.pc = "active"
  /\ game2' =
       IF T.q.kind = "start"
       THEN IF active # "none" /\ active # T.q.sid
            THEN G2Answer(game2, t, "conflict")
            ELSE [game2 EXCEPT !.reqs[t].pc = "row"]
       ELSE IF T.q.arg = "hard" THEN [game2 EXCEPT !.reqs[t].pc = "delete"]
       ELSE IF active # "none"
            THEN G2ToPersist(game2, t, active, [game2.rows[active] EXCEPT !.status = "aborted"])
            ELSE G2Answer(game2, t, "applied")
  /\ UNCHANGED <<gateway, lim, bridge, sdk>>

\* getSessionById returns to session/start, session/progress or
\* session/complete: the checks on seq, then the new state is built
G2RowReturn(t) ==
  LET T == game2.reqs[t]
      q == T.q
      R == game2.rows[q.sid]
      dup == q.seq # 0 /\ isDupByIdempotency(R, IdemType(q), q.seq)
      old == q.seq # 0 /\ q.seq < R.maxSeq
  IN
  /\ t \in 1..Len(game2.reqs)
  /\ T.pc = "row"
  /\ game2' =
       IF q.kind = "start"
       THEN IF ~R.exists
            THEN G2ToPersist(game2, t, q.sid,
                             MarkIfSeq([NoRow EXCEPT !.exists = TRUE, !.status = "active"], q))
            ELSE IF dup THEN G2Answer(game2, t, "idempotent")
            ELSE IF old THEN G2Answer(game2, t, "dropped")
            ELSE G2ToPersist(game2, t, q.sid, [MarkIfSeq(R, q) EXCEPT !.status = "active"])
       ELSE IF ~R.exists THEN G2Answer(game2, t, "notfound")
       ELSE IF old THEN G2Answer(game2, t, "dropped")
       ELSE IF dup THEN G2Answer(game2, t, "idempotent")
       ELSE IF q.kind = "progress"
       THEN IF q.arg = "unknown" THEN G2Answer(game2, t, "badrequest")
            ELSE G2ToPersist(game2, t, q.sid, MarkIfSeq(ProgressApply(R, q), q))
       ELSE G2ToPersist(game2, t, q.sid,
                        [MarkIfSeq(R, q) EXCEPT !.status =
                           IF @ \in TERMINAL_STATUS THEN @ ELSE q.arg])
  /\ UNCHANGED <<gateway, lim, bridge, sdk>>

\* persistSession runs: INSERT ... ON CONFLICT(id) DO UPDATE writes status,
\* state_json and updated_at as the handler built them
G2Persist(t) ==
  LET T == game2.reqs[t] IN
  /\ t \in 1..Len(game2.reqs)
  /\ T.pc = "persist"
  /\ game2' = [game2 EXCEPT !.rows[T.wsid] = [T.W EXCEPT !.exists = TRUE,
                                                        !.at = game2.clock + 1],
                            !.clock = @ + 1,
                            !.reqs[t].pc = "event"]
  /\ UNCHANGED <<gateway, lim, bridge, sdk>>

\* appendEvent runs; the handler answers
G2AppendEvent(t) ==
  LET T == game2.reqs[t] IN
  /\ t \in 1..Len(game2.reqs)
  /\ T.pc = "event"
  /\ game2' = G2Answer([game2 EXCEPT !.events[T.wsid] = @ + 1], t, "applied")
  /\ UNCHANGED <<gateway, lim, bridge, sdk>>

\* user/reset with mode hard: the DELETE statements run
G2Delete(t) ==
  /\ t \in 1..Len(game2.reqs)
  /\ game2.reqs[t].pc = "delete"
  /\ game2' = G2Answer([game2 EXCEPT !.rows = [sid \in SessionIds |-> NoRow],
                                      !.events = [sid \in SessionIds |-> 0]],
                        t, "applied")
  /\ UNCHANGED <<gateway, lim, bridge, sdk>>

\* ------------------------------------------------------------------ specification
\* the steps that resume a task on a settled promise
Internal ==
  \/ \E c \in Clients : \E i \in 1..Len(hands[c]) : LoginResume(c, i)
  \/ \E c \in Clients : \E i \in 1..Len(hands[c]) : SendCmdResume(c, i)
  \/ \E c \in Clients : \E s \in 1..Len(sends[c]) : SendStart(c, s)
  \/ \E c \in Clients : \E s \in 1..Len(sends[c]) : SendResume(c, s)

\* what _initIM waits for and is bound to get: the replies of the credential
\* provider and of the transport, or the _waitReady timer
InitReplies ==
  \/ \E c \in Clients : \E p \in 1..Len(inits[c]) : \E ok \in BOOLEAN : SignReturn(c, p, ok)
  \/ \E c \in Clients : \E p \in 1..Len(inits[c]) : \E ok \in BOOLEAN : LoginReturn(c, p, ok)
  \/ \E c \in Clients : \E p \in 1..Len(inits[c]) : ReadyTimeout(c, p)

SendReplies ==
  \E c \in Clients : \E s \in 1..Len(sends[c]) : \E ok \in BOOLEAN : SendReturn(c, s, ok)

DestroyReplies ==
  \/ \E c \in Clients : \E i \in 1..Len(hands[c]) : \E ok \in BOOLEAN : LogoutReturn(c, i, ok)
  \/ \E c \in Clients : \E i \in 1..Len(hands[c]) : ChatDestroyReturn(c, i)

Next ==
  \/ \E c \in Clients : Connect(c)
  \/ \E c \in Clients : \E inp \in LoginInputs : MsgLogin(c, inp)
  \/ \E c \in Clients : MsgLogout(c)
  \/ \E c \in Clients : \E inp \in SendInputs : MsgSend(c, inp)
  \/ Internal
  \/ InitReplies
  \/ SendReplies
  \/ DestroyReplies
  \/ \E c \in Clients : \E h \in 1..Len(chats[c]) : SdkReady(c, h)
  \/ \E c \in Clients : \E h \in 1..Len(chats[c]) : SdkNotReady(c, h)
  \/ \E c \in Clients : \E h \in 1..Len(chats[c]) : KickedOut(c, h)

Spec == Init /\ [][Next]_vars

NextRelogin ==
  \/ \E c \in Clients : Connect(c)
  \/ \E c \in Clients : \E inp \in LoginInputs : MsgLogin(c, inp)
  \/ \E c \in Clients : \E inp \in SendInputs : MsgSend(c, inp)
  \/ Internal
  \/ InitReplies
  \/ SendReplies
  \/ DestroyReplies
  \/ \E c \in Clients : \E h \in 1..Len(chats[c]) : SdkReady(c, h)

SpecRelogin == InitRelogin /\ [][NextRelogin]_vars

NextLive ==
  \/ \E c \in Clients : Connect(c)
  \/ \E c \in Clients : \E inp \in LoginInputs : MsgLogin(c, inp)
  \/ \E c \in Clients : \E inp \in SendInputs : MsgSend(c, inp)
  \/ Internal
  \/ InitReplies
  \/ SendReplies
  \/ DestroyReplies
  \/ \E c \in Clients : \E h \in 1..Len(chats[c]) : SdkReady(c, h)
  \/ \E c \in Clients : Pong(c)
  \/ \E c \in Clients : Close(c)
  \/ Sweep

\* Every started task is resumed once the promise it awaits has settled (the
\* microtask queue is drained), every call of the credential provider or of
\* the transport returns, with a result or with an error, and a set timer
\* fires.  Nothing obliges the backend to send SDK_READY or the client to
\* send anything.
Fairness ==
  /\ WF_vars(Internal)
  /\ WF_vars(InitReplies)
  /\ WF_vars(SendReplies)
  /\ WF_vars(DestroyReplies)

SpecLive == InitLive /\ [][NextLive]_vars /\ Fairness

NextDown ==
  \/ \E c \in Clients : Connect(c)
  \/ \E c \in Clients : \E inp \in LoginInputs : MsgLogin(c, inp)
  \/ \E c \in Clients : MsgLogout(c)
  \/ \E c \in Clients : \E inp \in SendInputs : MsgSend(c, inp)
  \/ Internal
  \/ InitReplies
  \/ SendReplies
  \/ DestroyReplies
  \/ \E c \in Clients : \E h \in 1..Len(chats[c]) : SdkReady(c, h)
  \/ \E c \in Clients : Close(c)

SpecDown == InitDown /\ [][NextDown]_vars /\ Fairness

NextTargets ==
  \/ \E c \in Clients : Connect(c)
  \/ \E c \in Clients : \E inp \in LoginInputs : MsgLogin(c, inp)
  \/ \E c \in Clients : \E inp \in TargetInputs : MsgSend(c, inp)
  \/ Internal
  \/ InitReplies
  \/ SendReplies
  \/ DestroyReplies
  \/ \E c \in Clients : \E h \in 1..Len(chats[c]) : SdkReady(c, h)

SpecTargets == InitTargets /\ [][NextTargets]_vars

NextAdmin ==
  \/ \E c \in Clients : Connect(c)
  \/ \E c \in Clients : \E inp \in LoginInputs : MsgLogin(c, inp)
  \/ \E c \in Clients : \E inp \in SendInputs : MsgSend(c, inp)
  \/ \E inp \in LoginInputs : AdminLogin(inp)
  \/ \E inp \in SendInputs : AdminSend(inp)
  \/ Internal
  \/ InitReplies
  \/ SendReplies
  \/ DestroyReplies
  \/ \E c \in Clients : \E h \in 1..Len(chats[c]) : SdkReady(c, h)
  \/ \E c \in Clients : \E h \in 1..Len(chats[c]) : SdkNotReady(c, h)
  \/ \E c \in Clients : \E h \in 1..Len(chats[c]) : KickedOut(c, h)

SpecAdmin == InitAdmin /\ [][NextAdmin]_vars

NextTwo ==
  \/ \E c \in Clients : Connect(c)
  \/ \E c \in Clients : \E inp \in LoginInputs : MsgLogin(c, inp)
  \/ \E c \in Clients : MsgLogout(c)
  \/ \E c \in Clients : \E inp \in SendInputs : MsgSend(c, inp)
  \/ \E c \in Clients : Close(c)
  \/ \E inp \in LoginInputs : AdminLogin(inp)
  \/ \E inp \in SendInputs : AdminSend(inp)
  \/ Internal
  \/ InitReplies
  \/ SendReplies
  \/ DestroyReplies
  \/ \E c \in Clients : \E h \in 1..Len(chats[c]) : SdkReady(c, h)
  \/ \E c \in Clients : \E h \in 1..Len(chats[c]) : SdkNotReady(c, h)
  \/ \E c \in Clients : \E h \in 1..Len(chats[c]) : KickedOut(c, h)

SpecTwo == InitTwo /\ [][NextTwo]_vars

NextBridge ==
  \/ \E kind \in {"http", "ws"} : BrLogin(kind)
  \/ \E t \in 1..Len(bridge.tasks) : \E ok \in BOOLEAN : BrSignReturn(t, ok)
  \/ \E t \in 1..Len(bridge.tasks) : \E ok \in BOOLEAN : BrLogoutReturn(t, ok)
  \/ \E t \in 1..Len(bridge.tasks) : BrDestroyReturn(t)
  \/ \E t \in 1..Len(bridge.tasks) : \E ok \in BOOLEAN : BrLoginReturn(t, ok)
  \/ \E t \in 1..Len(bridge.tasks) : BrReadyTimeout(t)
  \/ \E h \in 1..Len(bridge.handles) : BrSdkReady(h)
  \/ \E h \in 1..Len(bridge.handles) : BrSdkNotReady(h)
  \/ \E h \in 1..Len(bridge.handles) : BrKickedOut(h)
  \/ BrTimerFires

SpecBridge == InitBridge /\ [][NextBridge]_vars

\* one connection whose login messages may be malformed
InitParse == InitState /\ lim = ParseLimits

NextParse ==
  \/ \E c \in Clients : Connect(c)
  \/ \E c \in Clients : \E inp \in LoginInputs \cup OddLoginInputs : MsgLogin(c, inp)
  \/ \E c \in Clients : \E inp \in SendInputs : MsgSend(c, inp)
  \/ Internal
  \/ InitReplies
  \/ SendReplies
  \/ DestroyReplies
  \/ \E c \in Clients : \E h \in 1..Len(chats[c]) : SdkReady(c, h)
  \/ \E c \in Clients : \E h \in 1..Len(chats[c]) : KickedOut(c, h)

SpecParse == InitParse /\ [][NextParse]_vars

\* the game2 session API on its own
InitGame2 == InitState /\ lim = IdleLimits

NextGame2 ==
  \/ \E q \in Game2Requests : G2Receive(q)
  \/ \E t \in 1..Len(game2.reqs) : G2ActiveReturn(t)
  \/ \E t \in 1..Len(game2.reqs) : G2RowReturn(t)
  \/ \E t \in 1..Len(game2.reqs) : G2Persist(t)
  \/ \E t \in 1..Len(game2.reqs) : G2AppendEvent(t)
  \/ \E t \in 1..Len(game2.reqs) : G2Delete(t)

SpecGame2 == InitGame2 /\ [][NextGame2]_vars

\* one page with the browser SDK
InitSdk == InitState /\ lim = IdleLimits

NextSdk ==
  \/ \E ok \in BOOLEAN : PageConnects(ok)
  \/ \E ok \in BOOLEAN : ReconnectTimerFires(ok)
  \/ \E k \in 1..Len(sdk.socks) : SocketOpen(k)
  \/ \E k \in 1..Len(sdk.socks) : \E r \in BOOLEAN : StatusMessage(k, r)
  \/ \E k \in 1..Len(sdk.socks) : NotReadyMessage(k)
  \/ \E k \in 1..Len(sdk.socks) : SocketClose(k)

SpecSdk == InitSdk /\ [][NextSdk]_vars

\* ================================================================== claims

\* C1: the transport sees the sends of one session in the order in which
\* sendToC2C was called: chat.sendMessage is never invoked for a send after
\* it was invoked for a send submitted later.
C1_TransportOrderIsSubmissionOrder ==
  \A c \in Clients : \A j, k \in 1..Len(wire[c]) :
    j < k => wire[c][j] < wire[c][k]

\* the sends of a session whose _doSendToC2C has started and not yet returned
Executing(c) ==
  {s \in 1..Len(sends[c]) : sends[c][s].pc \in {"awaitInit", "sending"}}

\* C2: at most one _doSendToC2C of a session is between its start and its
\* completion, also across destroy() and loginWith().
C2_AtMostOneSendInFlight ==
  \A c \in Clients : Cardinality(Executing(c)) <= 1

\* the ensureReady calls of a session that found it not ready and are waiting
Waiting(c) == {s \in 1..Len(sends[c]) : sends[c][s].pc = "awaitInit"}

\* the executions of _initIM started while the session's initPromise was the
\* g-th one (each calls requestGameSign once and chat.login at most once)
InitsOf(c, g) == {p \in 1..Len(inits[c]) : inits[c][p].gen = g}

\* C3: concurrent ensureReady() calls on a session that is not ready (no
\* destroy() or loginWith() between them) all await the same initialization,
\* and that initialization is the only one started for them: one
\* requestGameSign call and at most one transport handle logged in.
C3_ConcurrentEnsureReadyShareOneInit ==
  \A c \in Clients : \A s, t \in Waiting(c) :
    sends[c][s].gen = sends[c][t].gen =>
      /\ sends[c][s].p = sends[c][t].p
      /\ InitsOf(c, sends[c][s].gen) = {sends[c][s].p}
      /\ Cardinality({h \in 1..Len(chats[c]) :
                        \E p \in InitsOf(c, sends[c][s].gen) : inits[c][p].h = h}) <= 1

\* two ensureReady calls wait on one initialization that is still in flight
C3_Witness ==
  \E c \in Clients : \E s, t \in Waiting(c) :
    /\ s # t
    /\ sends[c][s].gen = sends[c][t].gen
    /\ sends[c][s].p = sends[c][t].p
    /\ ~Settled(c, sends[c][s].p)

\* the login handlers of a connection that are inside loginWith, awaiting an
\* initialization
LoginsAwaiting(c) ==
  {i \in 1..Len(hands[c]) : hands[c][i].kind = "login" /\ hands[c][i].pc = "awaitInit"}

\* C4: a second loginWith with the same identity and token, called while the
\* first call's initialization is still in flight, awaits that same
\* initialization (so no second requestGameSign call or transport login is
\* made for it).
C4_SameLoginSharesInit ==
  \A c \in Clients : \A i, j \in LoginsAwaiting(c) :
    /\ i < j
    /\ hands[c][i].uid = hands[c][j].uid
    /\ hands[c][i].token = hands[c][j].token
    /\ ~Settled(c, hands[c][i].p)
    => hands[c][j].p = hands[c][i].p

\* the sendCommand handlers of a connection that have returned after trying
\* at least one recipient candidate
Dispatched(c) ==
  {i \in 1..Len(hands[c]) :
     /\ hands[c][i].kind = "send" /\ hands[c][i].pc = "done"
     /\ hands[c][i].tried # <<>>}

\* the attempt records follow the candidate list, one record per candidate
InListOrder(H) ==
  /\ Len(H.tried) <= Len(H.targets)
  /\ \A k \in 1..Len(H.tried) : H.tried[k].to = H.targets[k]

\* C5: the dispatcher tries the recipient candidates in list order and stops
\* at the first one the transport accepts: a success result names candidate
\* k, carries k attempt records, the transport send to candidate k succeeded
\* and the sends to candidates 1..k-1 failed.
C5_StopsAtFirstDeliverable ==
  \A c \in Clients : \A i \in Dispatched(c) :
    LET H == hands[c][i]
        k == Len(H.tried)
    IN H.res = "ok" =>
         /\ InListOrder(H)
         /\ H.okTo = H.targets[k]
         /\ H.tried[k].out = "ok"
         /\ \A j \in 1..(k - 1) : H.tried[j].out = "fail"

\* C6: when the transport send failed for every candidate the dispatcher
\* tried, the result is a failure and it carries one attempt record for each
\* candidate of the list.
C6_AllFailedIsDispatchFailed ==
  \A c \in Clients : \A i \in Dispatched(c) :
    LET H == hands[c][i] IN
    (\A k \in 1..Len(H.tried) : H.tried[k].out = "fail") =>
      /\ H.res = "fail"
      /\ InListOrder(H)
      /\ Len(H.tried) = Len(H.targets)

\* after KICKED_OUT and until the next loginWith the session holds no
\* transport handle and is not initialized
C7_KickedIsDestroyed ==
  \A c \in Clients :
    sess[c].kicked => im[c].chat = 0 /\ ~im[c].initialized /\ ~im[c].isReady

\* no sendCommand whose result was produced after KICKED_OUT and before the
\* next loginWith is reported as a success
C7_NoSuccessAfterKick ==
  \A c \in Clients : \A i \in 1..Len(hands[c]) :
    hands[c][i].kind = "send" /\ hands[c][i].pc = "done" /\ hands[c][i].kres
      => hands[c][i].res = "fail"

\* C7: after the backend's KICKED_OUT the session is destroyed, and every
\* send before a new loginWith fails: none is reported as a success.
C7_ForcedLogoutFailsSends == C7_KickedIsDestroyed /\ C7_NoSuccessAfterKick

\* the connection has received no login message yet
NoLoginYet(c) == CountKind(c, "login") = 0

\* C8: a sendCommand received before any login is answered at once with a
\* failure (the handler returns without suspending), and neither
\* requestGameSign nor any transport call is made: no initialization, no
\* transport handle, no queued send, no sendMessage.
C8_SendBeforeLoginFailsAtOnce ==
  \A c \in Clients :
    NoLoginYet(c) =>
      /\ \A i \in 1..Len(hands[c]) :
           hands[c][i].kind = "send" =>
             hands[c][i].pc = "done" /\ hands[c][i].res = "fail"
      /\ inits[c] = <<>> /\ chats[c] = <<>>
      /\ sends[c] = <<>> /\ wire[c] = <<>>

\* a sendCommand with a payload was refused on a connection that never logged in
C8_Witness ==
  \E c \in Clients :
    /\ NoLoginYet(c)
    /\ \E i \in 1..Len(hands[c]) :
         /\ hands[c][i].kind = "send"
         /\ hands[c][i].res = "fail" /\ hands[c][i].dlv = "sent"

\* the close handler of the connection has run and its destroy() has returned
CloseHandled(c) ==
  \E i \in 1..Len(hands[c]) : hands[c][i].kind = "close" /\ hands[c][i].pc = "done"

\* C9: a connection that left its liveness probe unanswered is, two sweeps
\* later, out of the registry, and once its close handler has run its
\* session is destroyed: the ChatClient holds no transport handle.
C9_UnresponsiveRemovedAndDestroyed ==
  \A c \in Clients :
    sess[c].missed >= 2 /\ CloseHandled(c) =>
      ~sess[c].reg /\ im[c].chat = 0

\* the handler invocations one connection can have under SpecLive
HandlerIds == 1..(LiveMaxLogin + LiveMaxSend + LiveMaxClose + 1)

\* handler i of connection c is a sendCommand that has not produced its result
Pending(c, i) ==
  IF i <= Len(hands[c])
  THEN hands[c][i].kind = "send" /\ hands[c][i].pc # "done"
  ELSE FALSE

\* handler i of connection c is a sendCommand that has produced its result
Answered(c, i) ==
  IF i <= Len(hands[c])
  THEN /\ hands[c][i].kind = "send" /\ hands[c][i].pc = "done"
       /\ hands[c][i].res \in {"ok", "fail"}
  ELSE FALSE

DroppedOnlyWhenClosed ==
  \A c \in Clients : \A i \in 1..Len(hands[c]) :
    hands[c][i].kind = "send" /\ hands[c][i].pc = "done" =>
      /\ hands[c][i].res \in {"ok", "fail"}
      /\ hands[c][i].dlv \in {"sent", "dropped"}
      /\ hands[c][i].dlv = "dropped" => ~IsOpen(c)

\* a handler that has produced its result produces nothing more
ResultIsFinal ==
  \A c \in Clients : \A i \in 1..Len(hands[c]) :
    hands[c][i].kind = "send" /\ hands[c][i].pc = "done" =>
      hands'[c][i] = hands[c][i]

StartsWaiting(c, s) ==
  sends[c][s].pc = "queued" /\ sends'[c][s].pc = "awaitInit"

\* C11: an ensureReady call made after an initialization attempt has failed
\* does not get the outcome of the failed attempt: the initialization it
\* awaits is one that has not failed (a fresh attempt).
C11_EnsureReadyRetriesAfterFailure ==
  [][\A c \in Clients : \A s \in 1..Len(sends[c]) :
       StartsWaiting(c, s) => inits'[c][sends'[c][s].p].pc # "fail"]_vars

\* a login message is handled in this step
LoginCalled(c) ==
  /\ Len(hands'[c]) = Len(hands[c]) + 1
  /\ hands'[c][Len(hands'[c])].kind = "login"

\* the session is Ready and the credentials loginWith has just stored are the
\* ones it is logged in with
ReadyWithSameCredentials(c) ==
  /\ im[c].initialized /\ im[c].isReady /\ im[c].chat # 0
  /\ im'[c].uid = im[c].curUid /\ im'[c].token = im[c].curToken

\* C12: loginWith on a Ready session with the credentials it is logged in
\* with returns at once: no requestGameSign call, no transport logout, no
\* transport login; the transport handle, the readiness flags, the
\* initialization and the send queue stay as they are, and the login is
\* answered with success.
C12_SameCredentialsLoginIsNoop ==
  [][\A c \in Clients :
       LoginCalled(c) /\ ReadyWithSameCredentials(c) =>
         /\ inits'[c] = inits[c] /\ chats'[c] = chats[c]
         /\ im'[c].chat = im[c].chat
         /\ im'[c].isReady /\ im'[c].initialized
         /\ im'[c].initPromise = im[c].initPromise
         /\ im'[c].sendQueue = im[c].sendQueue
         /\ hands'[c][Len(hands'[c])].pc = "done"
         /\ hands'[c][Len(hands'[c])].res = "ok"
         /\ sess'[c].isReady]_vars

\* two logins were answered with success and only one initialization ever ran
C12_Witness ==
  \E c \in Clients :
    /\ CountKind(c, "login") = 2
    /\ \A i \in 1..Len(hands[c]) :
         hands[c][i].kind = "login" => hands[c][i].pc = "done" /\ hands[c][i].res = "ok"
    /\ Len(inits[c]) = 1 /\ Len(chats[c]) = 1
    /\ im[c].isReady /\ im[c].initialized /\ im[c].chat = 1

\* the transport handles created for a session and not released by chat.destroy()
Unreleased(c) == {h \in 1..Len(chats[c]) : chats[c][h].st # "dead"}

\* C13: every transport handle created for a session and not yet released is
\* the handle the session references, so a session never has two unreleased
\* handles and never loses the reference to one.
C13_NoOrphanedHandle ==
  \A c \in Clients : \A h \in Unreleased(c) : im[c].chat = h

\* the caller of a send the transport failed observes the failure: the
\* dispatcher's attempt record for it is not marked ok
FailureReachesCaller ==
  \A c \in Clients : \A i \in Dispatched(c) :
    \A k \in 1..Len(hands[c][i].tried) :
      hands[c][i].tried[k].out = "fail" => ~hands[c][i].tried[k].ok

\* a send queued behind a failed one is not held back by it
QueueSurvivesFailure ==
  \A c \in Clients : \A s \in 1..Len(sends[c]) :
    LET S == sends[c][s] IN
    (/\ S.pc = "queued" /\ S.pred # 0
     /\ sends[c][S.pred].pc = "done" /\ sends[c][S.pred].out = "fail")
      => SendCanStart(c, s)

\* C14: a transport failure of one send rejects that sendToC2C call, so its
\* caller observes the failure, and only that call: the sends queued behind
\* it still run.
C14_FailureRejectsOnlyThatSend == FailureReachesCaller /\ QueueSurvivesFailure

\* the destroy() calls of a session that hold transport handle h: they have
\* called chat.logout() on it and have not reached their finally block
Destroying(c, h) ==
  {i \in 1..Len(hands[c]) :
     hands[c][i].pc \in {"logoutWait", "cdestroyWait"} /\ hands[c][i].h = h}

\* C15: destroy() is idempotent: a destroy() called while another destroy()
\* of the session is running does nothing more, so no transport handle is
\* logged out or released by two destroy() calls.
C15_DestroyIsIdempotent ==
  \A c \in Clients : \A h \in 1..Len(chats[c]) : Cardinality(Destroying(c, h)) <= 1

\* a logout of the connection has been answered (its destroy() has completed)
\* and no login message was handled after it
LoggedOut(c) ==
  \E j \in 1..Len(hands[c]) :
    /\ hands[c][j].kind = "logout" /\ hands[c][j].pc = "done"
    /\ \A k \in (j + 1)..Len(hands[c]) : hands[c][k].kind # "login"

\* C16: once a destroy() has completed, and until loginWith is invoked again,
\* the session is not Ready and references no transport handle.
C16_DestroyedUntilNextLogin ==
  \A c \in Clients :
    LoggedOut(c) => ~im[c].isReady /\ ~im[c].initialized /\ im[c].chat = 0

\* nothing of the session is under way: every handler has returned, every
\* initialization has settled, every send has completed
Quiet(c) ==
  /\ \A i \in 1..Len(hands[c]) : hands[c][i].pc = "done"
  /\ \A p \in 1..Len(inits[c]) : Settled(c, p)
  /\ \A s \in 1..Len(sends[c]) : sends[c][s].pc = "done"

\* the session references a transport handle that is logged in
HoldsLiveHandle(c) ==
  IF im[c].chat = 0 THEN FALSE ELSE chats[c][im[c].chat].st = "in"

\* C17: after a connection has closed, its registry entry is gone and, once
\* everything the session was doing has run to completion, the session
\* holds no live transport handle.
C17_ClosedSessionIsTornDown ==
  \A c \in Clients :
    CloseHandled(c) /\ Quiet(c) => ~sess[c].reg /\ ~HoldsLiveHandle(c)

\* requestGameSign of initialization p fails in this step
SignFails(c, p) == inits[c][p].pc = "sign" /\ inits'[c][p].pc = "fail"

\* initialization p failed in requestGameSign
SignFailed(c, p) == inits[c][p].pc = "fail" /\ inits[c][p].h = 0

\* the login handler i, which awaited an initialization that failed in
\* requestGameSign, returns in this step
LoginFailsOnSign(c, i) ==
  /\ hands[c][i].kind = "login" /\ hands[c][i].pc = "awaitInit"
  /\ SignFailed(c, hands[c][i].p)
  /\ hands'[c][i].pc = "done"

\* C18: when requestGameSign of an initialization attempt fails, the attempt
\* fails without creating a transport handle, without a transport login and
\* without touching the readiness flags, and the login that awaited it is
\* answered with success=false and leaves the session record not ready.
C18_SignFailureFailsTheAttempt ==
  [][\A c \in Clients :
       /\ \A p \in 1..Len(inits[c]) :
            SignFails(c, p) =>
              /\ inits'[c][p].h = 0
              /\ chats'[c] = chats[c]
              /\ im'[c].chat = im[c].chat
              /\ im'[c].isReady = im[c].isReady
              /\ im'[c].initialized = im[c].initialized
              /\ sess'[c].isReady = sess[c].isReady
       /\ \A i \in 1..Len(hands[c]) :
            LoginFailsOnSign(c, i) =>
              hands'[c][i].res = "fail" /\ ~sess'[c].isReady]_vars

\* a login was answered with a failure after its requestGameSign failed, and
\* the session has no transport handle and is not ready
C18_Witness ==
  \E c \in Clients : \E p \in 1..Len(inits[c]) :
    /\ SignFailed(c, p) /\ inits[c][p].by = "login"
    /\ chats[c] = <<>> /\ im[c].chat = 0
    /\ ~im[c].isReady /\ ~sess[c].isReady
    /\ \E i \in 1..Len(hands[c]) :
         /\ hands[c][i].kind = "login" /\ hands[c][i].pc = "done"
         /\ hands[c][i].res = "fail" /\ hands[c][i].dlv = "sent"

\* the backend signals not-ready or a forced logout in this step
SignalsNotReady(c) == evs'[c] = evs[c] + 1

\* the backend signals ready to an initialized session that was not ready
\* (Degraded) in this step
SignalsReadyAgain(c) ==
  im[c].initialized /\ ~im[c].isReady /\ im'[c].isReady

\* C19: the readiness flag of the session record, the one status
\* notifications report, follows the backend: false after SDK_NOT_READY or
\* KICKED_OUT, true again after the next SDK_READY, without a new login.
C19_VisibleReadinessFollowsBackend ==
  [][\A c \in Clients :
       /\ SignalsNotReady(c) => ~sess'[c].isReady
       /\ SignalsReadyAgain(c) => sess'[c].isReady]_vars

\* chat.sendMessage is invoked for a send of the session in this step
InvokesTransport(c) == Len(wire'[c]) > Len(wire[c])

\* C20: a send that comes to execute while the session is not ready fails
\* without invoking the transport: chat.sendMessage is invoked only on a
\* session that is ready at that moment.
C20_NotReadySendFailsFast ==
  [][\A c \in Clients : InvokesTransport(c) => im[c].isReady /\ im'[c].isReady]_vars

\* the executions of _initIM of a session that have started and not settled
InProgress(c) == {p \in 1..Len(inits[c]) : ~Settled(c, p)}

\* C21: no two executions of _initIM of one session are in progress at the
\* same time, whatever mix of ensureReady, loginWith, send and destroy calls
\* is made on it.
C21_OneInitAtATime ==
  \A c \in Clients : Cardinality(InProgress(c)) <= 1

\* a sendCommand message is handled in this step
SendCalled(c) ==
  /\ Len(hands'[c]) = Len(hands[c]) + 1
  /\ hands'[c][Len(hands'[c])].kind = "send"

\* the four candidates of that sendCommand in priority order, each normalized:
\* explicit override, configured fallback, backend identity, caller identity
Candidates(c) ==
  LET raw == <<hands'[c][Len(hands'[c])].targetId, lim.cmdTo, im[c].userId, sess[c].uid>>
  IN [k \in 1..4 |-> normalizeUid(raw[k])]

\* the priority of value v: the first position at which it is a candidate
Priority(c, v) ==
  CHOOSE k \in 1..4 :
    Candidates(c)[k] = v /\ \A j \in 1..(k - 1) : Candidates(c)[j] # v

\* list T holds exactly the non-empty candidates, once each, by priority
IsCandidateList(c, T) ==
  /\ \A k \in 1..Len(T) : T[k] # NULL /\ \E j \in 1..4 : Candidates(c)[j] = T[k]
  /\ \A j \in 1..4 : Candidates(c)[j] # NULL => \E k \in 1..Len(T) : T[k] = Candidates(c)[j]
  /\ \A j, k \in 1..Len(T) : j # k => T[j] # T[k]
  /\ \A j, k \in 1..Len(T) : j < k => Priority(c, T[j]) < Priority(c, T[k])

\* C22: the recipient list built for a sendCommand holds, in this priority
\* order, the explicit override, the configured fallback, the session's
\* backend identity and the caller-supplied identity, each normalized, with
\* empty entries omitted and no value twice (the first occurrence keeps its
\* place); the command is refused for lack of a recipient only when every
\* candidate is empty.
C22_CandidateListIsOrderedAndDeduplicated ==
  [][\A c \in Clients :
       SendCalled(c) =>
         LET H == hands'[c][Len(hands'[c])] IN
         /\ H.pc = "awaitSend" =>
              /\ IsCandidateList(c, H.targets)
              /\ sends'[c][H.sid].to = H.targets[1]
         /\ H.pc = "done" /\ sess[c].isReady /\ ~sess'[c].isReady =>
              \A j \in 1..4 : Candidates(c)[j] = NULL]_vars

\* a sendCommand with a prefixed override, under a prefixed fallback that
\* names the logged-in user: the list is the override, then the user, once
C22_Witness ==
  \E c \in Clients : \E i \in 1..Len(hands[c]) :
    /\ hands[c][i].kind = "send"
    /\ hands[c][i].targetId = <<GAME, "x">>
    /\ lim.cmdTo = <<GAME, "u1">>
    /\ im[c].userId = <<GAME, "u1">> /\ sess[c].uid = <<"u1">>
    /\ hands[c][i].targets = << <<"x">>, <<"u1">> >>

\* the backend signals not-ready or a forced logout on a handle of session d
\* in this step
NotReadyEventOf(d) == evs'[d] = evs[d] + 1

\* the backend signals ready on a handle of session d in this step
ReadyEventOf(d) ==
  \/ ~im[d].isReady /\ im'[d].isReady
  \/ \E p \in 1..Len(inits[d]) : inits[d][p].pc = "wait" /\ inits'[d][p].pc = "ok"

\* nothing of session c and of its connection changes in this step
Untouched(c) ==
  /\ sess'[c] = sess[c] /\ im'[c] = im[c] /\ chats'[c] = chats[c]
  /\ inits'[c] = inits[c] /\ sends'[c] = sends[c] /\ hands'[c] = hands[c]
  /\ wire'[c] = wire[c] /\ evs'[c] = evs[c]

AdminSendCalled ==
  /\ Len(hands'["admin"]) = Len(hands["admin"]) + 1
  /\ hands'["admin"][Len(hands'["admin"])].kind = "send"

\* C24: POST /api/send-command is answered with 503 (400 when it carries no
\* command at all), and no send is handed to the admin session, whenever the
\* admin IM session is not ready when the request arrives, also after
\* SDK_NOT_READY or KICKED_OUT on that session.
C24_AdminSendRefusedWhenNotReady ==
  [][AdminSendCalled /\ ~AlreadyReady(im["admin"]) =>
       /\ hands'["admin"][Len(hands'["admin"])].pc = "done"
       /\ hands'["admin"][Len(hands'["admin"])].code \in {503, 400}
       /\ sends'["admin"] = sends["admin"]]_vars

\* C25: sessions are independent: every step (a login, logout, send, backend
\* event or close, and every continuation of one) changes the state, the
\* send queue and the readiness of one session at most; in particular no
\* step of a connection changes the admin session or adminConfig, and no
\* step of the admin session changes a connection's session.
C25_SessionsAreIndependent ==
  [][\A c, d \in Clients : c # d /\ ~Untouched(c) => Untouched(d)]_vars

\* one connection has logged in and logged out again while another session
\* (a connection's or the admin's), logged in meanwhile, is Ready
C25_Witness ==
  \E c, d \in Clients :
    /\ c # d
    /\ LoggedOut(c) /\ \E i \in 1..Len(hands[c]) : hands[c][i].kind = "login"
    /\ im[c].chat = 0 /\ ~sess[c].isReady
    /\ AlreadyReady(im[d]) /\ sess[d].isReady /\ chats[d][im[d].chat].st = "in"

\* the backend kicks instance h of the bridge service offline in this step
BrKicked(h) ==
  bridge.handles[h].st = "in" /\ bridge'.handles[h].st = "kicked"

\* C26: whenever the IM client of the bridge service is kicked offline, the
\* service schedules a re-run of initIM (the 5 s reconnect timer), whichever
\* path created the instance: startup or reinit, /api/login, or a WebSocket
\* login.
C26_KickedOutSchedulesReinit ==
  [][\A h \in 1..Len(bridge.handles) :
       BrKicked(h) => bridge'.timers = bridge.timers + 1]_vars

\* chat.sendMessage of send s fails in this step
TransportSendFails(c, s) ==
  /\ sends[c][s].pc = "sending"
  /\ sends'[c][s].pc = "done" /\ sends'[c][s].out = "fail"

\* the handler that issued a send the transport failed returns in this step
FailedSendReported(c, i) ==
  /\ hands[c][i].kind = "send" /\ hands[c][i].pc = "awaitSend"
  /\ sends[c][hands[c][i].sid].pc = "done"
  /\ sends[c][hands[c][i].sid].out = "fail" /\ sends[c][hands[c][i].sid].h # 0
  /\ hands'[c][i].pc = "done"

\* a send queued behind one the transport failed starts in this step
StartsAfterFailure(c, s) ==
  /\ sends[c][s].pc = "queued" /\ sends'[c][s].pc # "queued"
  /\ sends[c][s].pred # 0
  /\ sends[c][sends[c][s].pred].out = "fail" /\ sends[c][sends[c][s].pred].h # 0

\* the readiness of session c, as the ChatClient and as the gate see it
Readiness(c) == <<im[c].isReady, im[c].initialized, im[c].chat, sess[c].isReady>>

\* C27: a failed transport send leaves the session usable: neither the
\* failure nor its report to the caller (of a sendCommand or of an admin
\* send-command) changes the session's readiness, and a following send on
\* the same session, if the session is still Ready, goes to the transport
\* without a new initialization.
C27_FailedSendLeavesSessionUsable ==
  [][\A c \in Clients :
       /\ \A s \in 1..Len(sends[c]) :
            /\ TransportSendFails(c, s) => Readiness(c)' = Readiness(c)
            /\ StartsAfterFailure(c, s) /\ AlreadyReady(im[c]) =>
                 /\ sends'[c][s].pc = "sending" /\ sends'[c][s].h = im[c].chat
                 /\ inits'[c] = inits[c]
       /\ \A i \in 1..Len(hands[c]) :
            FailedSendReported(c, i) => Readiness(c)' = Readiness(c)]_vars

\* after one login, a send the transport failed was followed by a send on the
\* same handle that the transport accepted, and the session is Ready
C27_Witness ==
  \E c \in Clients : \E s, t \in 1..Len(sends[c]) :
    /\ s < t /\ Len(inits[c]) = 1
    /\ sends[c][s].out = "fail" /\ sends[c][s].h # 0
    /\ sends[c][t].out = "ok" /\ sends[c][t].h = sends[c][s].h
    /\ AlreadyReady(im[c]) /\ sess[c].isReady
    /\ \A i \in 1..Len(hands[c]) : hands[c][i].pc = "done"

\* the heartbeat terminates connection c, or drops it from the registry, in
\* this step
ClosedByMonitor(c) ==
  \/ ~sess[c].term /\ sess'[c].term
  \/ sess[c].conn = "open" /\ sess'[c].conn = "open" /\ sess[c].reg /\ ~sess'[c].reg

\* C28: the heartbeat forcibly closes (and unregisters) a connection only in
\* a sweep that finds the probe of the previous sweep unanswered: a
\* connection that answers every probe before the next sweep is never closed
\* or removed by the heartbeat.
C28_ClosedOnlyForMissedProbe ==
  [][\A c \in Clients :
       ClosedByMonitor(c) =>
         /\ hb' = hb + 1 /\ hb >= 1
         /\ ~sess[c].isAlive
         /\ sess'[c].term /\ ~sess'[c].reg]_vars

\* a connection answered the first probe, survived the second sweep, left
\* the second probe unanswered and was terminated by the third sweep
C28_Witness ==
  \E c \in Clients :
    hb = 3 /\ sess[c].term /\ ~sess[c].reg /\ sess[c].missed = 1

\* the executions of _initIM one session can have under SpecLive
InitIds == 1..(LiveMaxLogin + LiveMaxSend + 1)

\* execution p of _initIM is in _waitReady: requestGameSign and chat.login
\* have returned and it waits for SDK_READY
AwaitsReady(c, p) ==
  IF p <= Len(inits[c]) THEN inits[c][p].pc = "wait" ELSE FALSE

\* execution p of _initIM has completed or failed
HasSettled(c, p) ==
  IF p <= Len(inits[c]) THEN Settled(c, p) ELSE FALSE

\* an execution waiting in _waitReady leaves it only by completing, with
\* the session Ready, or by failing on the timer, which changes nothing
\* but the attempt itself
LeavesWaitSettled ==
  \A c \in Clients : \A p \in 1..Len(inits[c]) :
    inits[c][p].pc = "wait" /\ inits'[c][p].pc # "wait" =>
      \/ inits'[c][p].pc = "ok" /\ im'[c].isReady /\ im'[c].initialized
      \/ inits'[c][p].pc = "fail" /\ UNCHANGED <<im, sess, chats, sends, hands, wire, evs>>

\* C29: every initialization attempt terminates: once requestGameSign and
\* chat.login have returned, the attempt completes Ready on SDK_READY or
\* fails on the ready timeout; it never waits for SDK_READY forever.
C29_InitAttemptTerminates ==
  /\ [][LeavesWaitSettled]_vars
  /\ \A c \in Clients : \A p \in InitIds : AwaitsReady(c, p) ~> HasSettled(c, p)

\* an attempt whose chat.login succeeded waited for SDK_READY and failed on
\* the timeout
C29_Witness ==
  \E c \in Clients : \E p \in 1..Len(inits[c]) :
    /\ inits[c][p].pc = "fail" /\ inits[c][p].waitH # 0
    /\ chats[c][inits[c][p].h].st = "in"

\* requestGameSign is called for session c in this step: a new execution
\* of _initIM starts
SignCalled(c) == Len(inits'[c]) > Len(inits[c])

\* chat.login is called on a handle of session c in this step
TransportLoginCalled(c) == Len(chats'[c]) > Len(chats[c])

\* the execution of _initIM that starts in this step was started by
\* loginWith for a login the caller issued, or by ensureReady for a send
\* the caller issued
StartedForCaller(c) ==
  LET p == Len(inits'[c]) IN
  /\ Len(inits'[c]) = Len(inits[c]) + 1
  /\ inits'[c][p].pc = "sign"
  /\ IF inits'[c][p].by = "login"
     THEN \E i \in 1..Len(hands'[c]) :
            /\ hands'[c][i].kind = "login"
            /\ hands'[c][i].pc = "awaitInit" /\ hands'[c][i].p = p
            /\ IF i <= Len(hands[c]) THEN hands[c][i].pc # "awaitInit" ELSE TRUE
     ELSE \E s \in 1..Len(sends[c]) :
            /\ sends[c][s].pc = "queued"
            /\ sends'[c][s].pc = "awaitInit" /\ sends'[c][s].p = p

\* the chat.login of this step continues an execution of _initIM whose
\* requestGameSign has just returned
ContinuesAttempt(c) ==
  \E p \in 1..Len(inits[c]) :
    /\ inits[c][p].pc = "sign" /\ inits'[c][p].pc = "login"
    /\ inits'[c][p].h = Len(chats'[c])

\* a failed execution of _initIM is never resumed
FailedStaysFailed(c) ==
  \A p \in 1..Len(inits[c]) : inits[c][p].pc = "fail" => inits'[c][p] = inits[c][p]

QueuedAtDestroy(c, s) ==
  /\ im[c].sendQueue = 0 /\ im[c].gen > 0
  /\ sends[c][s].pc = "queued"

\* C31: destroy() clears the send queue: a send that was queued and had not
\* started when destroy() ran is never executed afterwards; it neither
\* reaches chat.sendMessage nor starts an _initIM.
C31_DestroyClearsTheQueue ==
  [][\A c \in Clients : \A s \in 1..Len(sends[c]) :
       QueuedAtDestroy(c, s) =>
         /\ sends'[c][s].pc = "queued"
         /\ Len(inits'[c]) = Len(inits[c])
         /\ wire'[c] = wire[c]]_vars

\* handler i's call of destroy() returns in this step
DestroyCompletes(c, i) ==
  /\ hands[c][i].pc \in {"logoutWait", "cdestroyWait"}
  /\ hands'[c][i].pc \notin {"logoutWait", "cdestroyWait"}

\* C32: when destroy() completes on a session that held a transport handle,
\* chat.destroy() has been invoked on that handle, whatever chat.logout()
\* returned, so that the handle emits no further events.
C32_DestroyReleasesTheHandle ==
  [][\A c \in Clients : \A i \in 1..Len(hands[c]) :
       DestroyCompletes(c, i) => chats'[c][hands[c][i].h].st = "dead"]_vars

\* the attempt that starts in this step calls requestGameSign for the
\* identity and the token the session holds at that moment
SignsForCurrentIdentity(c) ==
  LET I == inits'[c][Len(inits'[c])] IN
  /\ I.gameUid = toGameUid(normalizeUid(im'[c].uid))
  /\ I.token = im'[c].token

\* the chat.login of this step is called by the attempt whose requestGameSign
\* has just returned, with the signature that call returned
LogsInWithOwnSignature(c) ==
  LET h == Len(chats'[c]) IN
  \E p \in 1..Len(inits[c]) :
    /\ inits[c][p].pc = "sign" /\ inits'[c][p].pc = "login"
    /\ inits'[c][p].h = h
    /\ chats'[c][h].sigUid = inits[c][p].gameUid
    /\ chats'[c][h].sigToken = inits[c][p].token

\* C33: every chat.login uses the signature requestGameSign returned in the
\* same execution of _initIM, requested for the identity and token that
\* execution started with; a signature obtained for an earlier identity or
\* token, or before a destroy(), is never reused.
C33_LoginUsesFreshSignature ==
  [][\A c \in Clients :
       /\ SignCalled(c) => SignsForCurrentIdentity(c)
       /\ TransportLoginCalled(c) => LogsInWithOwnSignature(c)]_vars

\* a session that was logged in and torn down has logged in again with a
\* signature for another identity
C33_Witness ==
  \E c \in Clients :
    /\ Len(chats[c]) >= 2
    /\ chats[c][1].st = "dead"
    /\ chats[c][2].sigUid # chats[c][1].sigUid
    /\ chats[c][2].st = "in"

\* the sockets of the page that have closed
ClosedSockets == {k \in 1..Len(sdk.socks) : sdk.socks[k] = "closed"}

\* every close and every failed construction has scheduled one reconnect,
\* and every reconnect scheduled is pending or has called connect()
OneReconnectEach ==
  /\ sdk.scheduled = Cardinality(ClosedSockets) + sdk.failed
  /\ sdk.calls > 0 => sdk.calls + sdk.timers = sdk.scheduled + 1

\* isIMReady is set only by a status message of the newest socket, still open
ReadyOnlyByStatus ==
  sdk.isIMReady =>
    /\ sdk.readyBy = Len(sdk.socks)
    /\ sdk.socks[sdk.readyBy] = "open"

\* onopen resets the retry counter
OpenResetsRetry ==
  \A k \in 1..Len(sdk.socks) :
    sdk.socks[k] = "connecting" /\ sdk'.socks[k] = "open" => sdk'.retry = 0

\* C34: in the browser SDK every socket close and every failed socket
\* construction schedules exactly one new connect attempt, however many
\* retries there have been; the retry counter returns to 0 on every open,
\* and isIMReady is false from a close until a status message on a new
\* connection sets it.
C34_SdkReconnectsAfterEveryClose ==
  /\ [](OneReconnectEach /\ ReadyOnlyByStatus)
  /\ [][OpenResetsRetry]_vars

\* after a failed construction and a closed connection the page is
\* connected again, the retry counter is back at 0 and a status message
\* has set isIMReady
C34_Witness ==
  /\ sdk.failed >= 1 /\ ClosedSockets # {}
  /\ sdk.isConnected /\ sdk.isIMReady /\ sdk.retry = 0

\* no login handler of the session is running and no _initIM is in progress
NoLoginInProgress(c) ==
  /\ \A i \in 1..Len(hands[c]) : hands[c][i].kind = "login" => hands[c][i].pc = "done"
  /\ \A p \in 1..Len(inits[c]) : Settled(c, p)

\* C35: whenever a session is Ready and no login is in progress, its live
\* handle is logged in as the identity of the most recently issued loginWith,
\* which is the uid recorded for the connection, even when logins with
\* different credentials overlapped.
C35_ReadyAsTheLatestIdentity ==
  \A c \in Clients :
    IsWs(c) /\ AlreadyReady(im[c]) /\ NoLoginInProgress(c) =>
      /\ chats[c][im[c].chat].st = "in"
      /\ chats[c][im[c].chat].userId = toGameUid(normalizeUid(sess[c].uid))
      /\ normalizeUid(sess[c].uid) = im[c].uid

\* a login message arrives in this step whose uid or token is missing after
\* parseUidToken
MalformedLogin(c) ==
  /\ LoginCalled(c)
  /\ \/ hands'[c][Len(hands'[c])].uid = NULL
     \/ hands'[c][Len(hands'[c])].token = NULL

\* C36: a login message whose uid or token is missing after connect-code
\* parsing is answered with one failed loginResult, calls neither
\* requestGameSign nor the transport, and leaves the session's uid, token and
\* isReady and the ChatClient as they were.
C36_MalformedLoginChangesNothing ==
  [][\A c \in Clients :
       MalformedLogin(c) =>
         /\ hands'[c][Len(hands'[c])].pc = "done"
         /\ hands'[c][Len(hands'[c])].res = "fail"
         /\ hands'[c][Len(hands'[c])].dlv = "sent"
         /\ sess'[c] = sess[c] /\ im'[c] = im[c]
         /\ inits'[c] = inits[c] /\ chats'[c] = chats[c]
         /\ sends'[c] = sends[c] /\ wire'[c] = wire[c]]_vars

\* a logged-in, Ready connection has sent a login without a usable uid or
\* token, got the failure and is still Ready under the uid it had
C36_Witness ==
  \E c \in Clients : \E i \in 2..Len(hands[c]) :
    /\ hands[c][i].kind = "login" /\ hands[c][i].res = "fail"
    /\ hands[c][i].uid = NULL \/ hands[c][i].token = NULL
    /\ hands[c][1].kind = "login" /\ hands[c][1].res = "ok"
    /\ sess[c].isReady /\ sess[c].uid # NULL /\ AlreadyReady(im[c])

\* C37: whenever session.isReady of a gateway connection is true, its
\* ChatClient is backend-ready with a live, logged-in transport handle and
\* the connection's recorded uid is not null, under any interleaving of
\* login, logout, sendCommand and backend events.
C37_VisibleReadinessIsSound ==
  \A c \in Clients :
    IsWs(c) /\ sess[c].isReady =>
      /\ im[c].isReady /\ im[c].chat # 0
      /\ chats[c][im[c].chat].st = "in"
      /\ sess[c].uid # NULL

\* C38: in the game2 session API a stored session whose status is terminal
\* (complete, aborted, complete_with_warning) keeps that status: no later
\* session/start, session/progress or session/complete changes it.
C38_TerminalStatusIsFinal ==
  [][\A sid \in SessionIds :
       /\ game2.rows[sid].exists /\ game2.rows[sid].status \in TERMINAL_STATUS
       /\ game2'.rows[sid].exists
       => game2'.rows[sid].status = game2.rows[sid].status]_vars

\* C39: in the game2 session API the uid has at most one stored session with
\* a non-terminal status at any time.
C39_OneActiveSessionPerUid ==
  Cardinality(NonTerminal(game2)) <= 1

\* a request is answered in this step as a duplicate or as too old
AnsweredAsRepeat(t) ==
  /\ game2.reqs[t].pc # "done"
  /\ game2'.reqs[t].pc = "done"
  /\ game2'.reqs[t].res \in {"idempotent", "dropped"}

\* a request with the same non-zero seq and the same type as request t was
\* applied to the same session before this step, and the session was not
\* deleted by a hard reset
AppliedBefore(t) ==
  /\ \A u \in 1..Len(game2.reqs) : game2.reqs[u].q.arg # "hard"
  /\ \E u \in 1..Len(game2.reqs) :
      /\ u # t
      /\ game2.reqs[u].pc = "done" /\ game2.reqs[u].res = "applied"
      /\ game2.reqs[u].q.sid = game2.reqs[t].q.sid
      /\ game2.reqs[u].q.seq = game2.reqs[t].q.seq
      /\ IdemType(game2.reqs[u].q) = IdemType(game2.reqs[t].q)

\* request t, a re-delivery, changes the stored session or appends an event
\* in this step
RepeatApplied(t) ==
  /\ game2.reqs[t].q.kind # "reset" /\ game2.reqs[t].q.seq # 0
  /\ AppliedBefore(t)
  /\ game2.rows[game2.reqs[t].q.sid].exists
  /\ game2.reqs[t].pc \in {"persist", "event"}
  /\ game2'.reqs[t].pc # game2.reqs[t].pc

\* C40: in the game2 session API re-delivering a request that was already
\* applied, with the same non-zero seq and the same type, leaves the stored
\* session unchanged and appends no event; the stored maxSeq never decreases,
\* and a request with a seq below it is dropped without any change.
C40_SeqIsIdempotentAndMonotone ==
  [][/\ \A t \in 1..Len(game2.reqs) :
          /\ ~RepeatApplied(t)
          /\ AnsweredAsRepeat(t) =>
                game2'.rows = game2.rows /\ game2'.events = game2.events
     /\ \A sid \in SessionIds :
          game2.rows[sid].exists /\ game2'.rows[sid].exists =>
            game2'.rows[sid].maxSeq >= game2.rows[sid].maxSeq]_vars

====
